---- MODULE Spec2Model ----
(***************************************************************************)
(* Relevance-filtering pipeline of the crawler: the classification client  *)
(* (ArkAnalyzer), its batch/concurrency scheduler, and the relevance cache *)
(* and merge of RelevanceAnalyzer.                                         *)
(*                                                                         *)
(* Conventions of the model:                                               *)
(*  - a Python str that the code inspects character by character (the     *)
(*    relevance value) is a sequence of one-character strings;             *)
(*  - a float score is the integer it equals (the model only produces      *)
(*    integral scores);                                                    *)
(*  - an explanation is a natural number: 0 is the empty string '', k > 0  *)
(*    is some non-empty text (in the scheduler, the explanation the        *)
(*    service wrote for text k).                                           *)
(***************************************************************************)
EXTENDS Integers, Sequences, FiniteSets, TLC

\* ------------------------------------------------------------------ bounds
\* longest text list handed to analyze_contents
MaxTexts == 3
\* largest batch_size tried
MaxBatchSize == 2
\* largest concurrent_tasks tried
MaxConc == 2

\* most distinct identifiers (UID) in the datasets
MaxUid == 2
\* most rows of a raw dataset
MaxRows == 2
\* most analyze_excel runs in one behaviour
MaxRuns == 2
\* most raw datasets written in one behaviour
MaxPuts == 2
\* most rows of a relevant dataset
MaxItems == 7
\* most failures of the environment in one enrichment run
MaxFaults == 1
\* most notes one search stores
MaxNotes == 3
\* most (keyword, id) pairs the batch driver loads
MaxAttractions == 3
\* most failed writes of the batch results file in one run
MaxSaveFaults == 1
\* most note identifiers asked of the fetch client
MaxNoteIds == 2
\* most requests made to the fetch client in one behaviour
MaxRequests == 4

\* ------------------------------------------------------- program constants
\* process_keyword(max_pages = 11)
max_pages == 11
\* process_keyword(max_retries = 3)
search_max_retries == 3
\* RelevanceAnalyzer.RELEVANCE_THRESHOLD
RELEVANCE_THRESHOLD == 25
\* ArkAnalyzer.__init__(max_retries=3); RelevanceAnalyzer never overrides it
max_retries == 3
\* get_note_details: batch_size = 5
detail_batch_size == 5
\* get_note_details: cutoff_timestamp, 2024-01-01 in milliseconds; the model
\* counts publish times from that instant
cutoff_timestamp == 0
\* get_note_details: consecutive_old_posts >= 2
old_posts_limit == 2

\* ---------------------------------------------------------------- helpers
Min(a, b) == IF a < b THEN a ELSE b

\* {'relevance_score': 0.0, 'explanation': ''}
ZeroResult == [relevance_score |-> 0, explanation |-> 0]

\* [{'relevance_score': 0.0, 'explanation': ''} for _ in range(n)]
Zeros(n) == [i \in 1..n |-> ZeroResult]

\* ------------------------------------------------- _parse_relevance_score
Digits == <<"0", "1", "2", "3", "4", "5", "6", "7", "8", "9">>

IsDigit(c) == \E i \in 1..10 : Digits[i] = c

DigitVal(c) == (CHOOSE i \in 1..10 : Digits[i] = c) - 1

RECURSIVE NatOf(_)
NatOf(s) ==
    IF s = <<>> THEN 0
    ELSE 10 * NatOf(SubSeq(s, 1, Len(s) - 1)) + DigitVal(s[Len(s)])

\* str.rstrip('%'): every trailing '%' is removed
RECURSIVE RStripPct(_)
RStripPct(s) ==
    IF s # <<>> /\ s[Len(s)] = "%" THEN RStripPct(SubSeq(s, 1, Len(s) - 1)) ELSE s

\* '%' in relevance
HasPct(s) == \E i \in 1..Len(s) : s[i] = "%"

\* float(s) on the model's alphabet (digits, sign, '%', other characters):
\* an optional sign followed by one or more digits; anything else is ValueError
FloatOf(s) ==
    LET signed == s # <<>> /\ s[1] \in {"-", "+"}
        body   == IF signed THEN Tail(s) ELSE s
        ok     == body # <<>> /\ \A i \in 1..Len(body) : IsDigit(body[i])
    IN  IF ~ok THEN [ok |-> FALSE, v |-> 0]
        ELSE [ok |-> TRUE,
              v  |-> IF signed /\ s[1] = "-" THEN 0 - NatOf(body) ELSE NatOf(body)]

\* a relevance value of a JSON item: a string, a number, or anything else
StrVal(s) == [t |-> "str", s |-> s, n |-> 0]
NumVal(n) == [t |-> "num", s |-> <<>>, n |-> n]
OtherVal == [t |-> "other", s |-> <<>>, n |-> 0]

ParseRelevanceScore(relevance) ==
    IF relevance.t = "str" /\ HasPct(relevance.s)
    THEN LET f == FloatOf(RStripPct(relevance.s)) IN IF f.ok THEN f.v ELSE 0
    ELSE IF relevance.t = "num" THEN relevance.n
    ELSE 0

\* ------------------------------------------------------- service replies
\* One element of the JSON array: an object with its 'relevance' and
\* 'explanation' keys (hasRel = FALSE: the key 'relevance' is absent), or a
\* value that is not an object.
DictItem(rel, expl) == [kind |-> "dict", hasRel |-> TRUE, relevance |-> rel, explanation |-> expl]
NoRelItem(expl) == [kind |-> "dict", hasRel |-> FALSE, relevance |-> OtherVal, explanation |-> expl]
NonDictItem == [kind |-> "nondict", hasRel |-> FALSE, relevance |-> OtherVal, explanation |-> 0]

\* One regex match of _parse_text_response: the (\d+) group and the stripped
\* explanation group.
Match(digits, expl) == [score_str |-> digits, explanation |-> expl]

\* choice.message.content, by what the code distinguishes:
\*   nomessage  the choice has no 'message' attribute
\*   none       content is None
\*   empty      content is ''
\*   nonstr     content is a truthy value that is not a string
\*   json_list  content is JSON text of an array (items)
\*   json_other content is JSON text of something that is not an array
\*   text       content is not JSON; matches = re.findall(pattern, content)
Choice(kind, items, matches) == [kind |-> kind, items |-> items, matches |-> matches]
NoMessage == Choice("nomessage", <<>>, <<>>)
NoneContent == Choice("none", <<>>, <<>>)
EmptyContent == Choice("empty", <<>>, <<>>)
NonStrContent == Choice("nonstr", <<>>, <<>>)
JsonList(items) == Choice("json_list", items, <<>>)
JsonOther == Choice("json_other", <<>>, <<>>)
Text(matches) == Choice("text", <<>>, matches)

\* what `await client.chat.completions.create(...)` gives: an exception, or a
\* completion with its list of choices (empty or missing: no choices)
Raised == [kind |-> "exception", choices |-> <<>>]
Completion(choices) == [kind |-> "completion", choices |-> choices]

\* ---------------------------------------------------- _parse_text_response
ParseTextResponse(matches, expected_count) ==
    IF matches # <<>>
    THEN [i \in 1..Len(matches) |->
            [relevance_score |-> NatOf(matches[i].score_str),
             explanation |-> matches[i].explanation]]
    ELSE Zeros(expected_count)

\* --------------------------------------------------------- _parse_response
\* the body of `for item in parsed_data`: objects are parsed, anything else
\* is passed over
RECURSIVE ParseItems(_)
ParseItems(items) ==
    IF items = <<>> THEN <<>>
    ELSE LET item == Head(items) IN
         (IF item.kind = "dict"
          THEN << [relevance_score |->
                      ParseRelevanceScore(IF item.hasRel THEN item.relevance
                                          ELSE StrVal(<<"0", "%">>)),
                   explanation |-> item.explanation] >>
          ELSE <<>>) \o ParseItems(Tail(items))

\* the body of `for choice in response.choices`
RECURSIVE ParseChoices(_, _)
ParseChoices(choices, expected_count) ==
    IF choices = <<>> THEN <<>>
    ELSE LET c == Head(choices) IN
         (CASE c.kind \in {"nomessage", "none", "empty"} -> <<>>
            [] c.kind = "json_list" -> ParseItems(c.items)
            [] c.kind = "json_other" -> <<>>
            [] c.kind = "text" -> ParseTextResponse(c.matches, expected_count)
            [] OTHER -> <<>>) \o ParseChoices(Tail(choices), expected_count)

\* content.strip() raises on a content that is not a string; the loop stops
\* at the first choice it reaches that has one
ParseRaises(choices) == \E i \in 1..Len(choices) : choices[i].kind = "nonstr"

\* the truncation without the padding loop
PadTruncateNoPad(results, expected_count) ==
    SubSeq(results, 1, Min(expected_count, Len(results)))

\* `while len(results) < expected_count: append zero` and the truncation
PadTruncate(results, expected_count) ==
    [i \in 1..expected_count |-> IF i <= Len(results) THEN results[i] ELSE ZeroResult]

ParseResponse(response, expected_count) ==
    IF response.choices = <<>> THEN Zeros(expected_count)
    ELSE IF ParseRaises(response.choices) THEN Zeros(expected_count)
    ELSE LET results == ParseChoices(response.choices, expected_count) IN
         IF results = <<>> THEN Zeros(expected_count)
         ELSE PadTruncate(results, expected_count)

\* the test on the scores alone
ShouldRetryScoresOnly(results) ==
    \A i \in 1..Len(results) : results[i].relevance_score = 0

\* -------------------------------------------------- _should_retry_response
ShouldRetryResponse(results) ==
    /\ \A i \in 1..Len(results) : results[i].relevance_score = 0
    /\ \A i \in 1..Len(results) : results[i].explanation = 0

\* ------------------------------------------------------------ analyze_batch
\* the response logging before the parse: json.loads(choices[0].message.content)
\* raises TypeError (not JSONDecodeError) when that content is not a string
LoggingRaises(response) ==
    /\ response.choices # <<>>
    /\ response.choices[1].kind \in {"none", "nonstr"}

\* the retry test off by one: `attempt < self.max_retries`
AttemptOutcomeOneMore(response, expected_count, attempt) ==
    IF response.kind = "exception" \/ LoggingRaises(response)
    THEN IF attempt < max_retries
         THEN [next |-> "sleep", results |-> <<>>]
         ELSE [next |-> "return", results |-> Zeros(expected_count)]
    ELSE LET results == ParseResponse(response, expected_count) IN
         IF ShouldRetryResponse(results) /\ attempt < max_retries
         THEN [next |-> "sleep", results |-> <<>>]
         ELSE [next |-> "return", results |-> results]

\* `return []` once the retries are used up
AttemptOutcomeEmptyOnFail(response, expected_count, attempt) ==
    IF response.kind = "exception" \/ LoggingRaises(response)
    THEN IF attempt < max_retries - 1
         THEN [next |-> "sleep", results |-> <<>>]
         ELSE [next |-> "return", results |-> <<>>]
    ELSE LET results == ParseResponse(response, expected_count) IN
         IF ShouldRetryResponse(results) /\ attempt < max_retries - 1
         THEN [next |-> "sleep", results |-> <<>>]
         ELSE [next |-> "return", results |-> results]

\* One pass of `for attempt in range(self.max_retries)` after the awaited call
\* has ended: "sleep" (asyncio.sleep, then the next attempt) or "return".
AttemptOutcome(response, expected_count, attempt) ==
    IF response.kind = "exception" \/ LoggingRaises(response)
    THEN IF attempt < max_retries - 1
         THEN [next |-> "sleep", results |-> <<>>]
         ELSE [next |-> "return", results |-> Zeros(expected_count)]
    ELSE LET results == ParseResponse(response, expected_count) IN
         IF ShouldRetryResponse(results) /\ attempt < max_retries - 1
         THEN [next |-> "sleep", results |-> <<>>]
         ELSE [next |-> "return", results |-> results]

\* ================================================================= state
VARIABLES
    \* ---- ArkAnalyzer.analyze_contents / analyze_batch
    texts,            \* the list handed in; text k is the natural number k
    keyword,          \* "" or a non-empty keyword
    batch_size,       \* self.batch_size
    concurrent_tasks, \* self.concurrent_tasks
    pc,               \* per batch task: where process_batch_with_semaphore is
    attempt,          \* per batch task: `attempt` of the retry loop
    batchResult,      \* per batch task: what analyze_batch returned
    semValue,         \* asyncio.Semaphore._value
    semWaiters,       \* asyncio.Semaphore._waiters, oldest first
    acPc,             \* analyze_contents: "gather" or "returned"
    results,          \* what analyze_contents returned
    \* ---- history of the run (not read by the code)
    calls,            \* per batch task: service calls issued
    lastEvent,        \* per batch task: "none", "call" or "sleep"
    onlyExc,          \* per batch task: every ended attempt raised
    doneOrder,        \* batch tasks in the order they completed
    lastResponse,     \* analyze_batch run alone: what its latest call gave
    \* ---- RelevanceAnalyzer: the processed directory
    rawFile,          \* <id>.xlsx, per file id
    analyzedFile,     \* <id>_analyzed.xlsx, per file id
    filteredFile,     \* <id>_filtered.xlsx, per file id
    runs,             \* analyze_excel runs so far
    puts,             \* raw datasets written so far
    last,             \* history: what the latest operation on the directory did
    \* ---- _merge_with_cache applied to given frames
    mNew, mCached, mOut, mPc,
    \* ---- AttractionAnalyzer.get_note_details
    noteTime,         \* per UID: the publish time the detail service holds
    hasFields,        \* the rows have the columns UID and xsec_token
    df_relevant,      \* the relevant rows in the order the loop iterates them
    relevant_file,    \* <id>_relevant.xlsx
    detail_file,      \* <id>_details.xlsx, the durable detail store
    existing_details, \* the store as loaded before the loop, by UID
    batch,            \* the pending batch
    all_processed,
    consecutive_old_posts,
    pos,              \* position of the loop in df_relevant
    ePc,              \* "loop", "sleep", "final", "done", "aborted" or "idle"
    \* ---- history of the enrichment run (not read by the code)
    fetched,          \* positions whose detail was requested from the service
    processed,        \* positions that produced a detail record
    flushes,          \* flushes made because the batch reached batch_size
    stopAt,           \* position at which the early stop fired, 0 if none
    outcomes,         \* per position the loop has been at: how the item ended
    faults,           \* failures of the environment so far
    \* ---- AttractionAnalyzer.analyze_attraction
    aPc,              \* "search", "classify", "enrich", "returned", "raised",
                      \* "cancelled" or "idle"
    attraction_result, \* the dict `results` of analyze_attraction
    analyzed,         \* rows and relevant rows of the analyzed file
    stages,           \* history: the stages started, in order
    raisedIn,         \* history: the stage whose exception reached the handler
    \* ---- BatchAttractionProcessor.process_attractions
    attractions,      \* how many pairs load_attractions returned; pair k is k
    dI,               \* the loop's item, counted from 1
    dPc,              \* "load", "item", "sleep", "done", "interrupted" or "idle"
    batch_results,    \* the list `results` of process_attractions
    result_file,      \* the rows of batch_results_<date>.xlsx
    saveFaults,       \* history: writes of the results file that failed
    \* ---- process_keyword
    page,             \* `page` of the page loop
    retry,            \* `retry` of the retry loop
    sPc,              \* "request", "retry_sleep", "page_sleep", "done" or "idle"
    all_notes,        \* the notes of a page are the page's number
    lastRequested,    \* history: the latest page requested, 0 if none
    noMoreAt,         \* history: the first page answered with has_more false
    \* ---- NoteDetailRunner.get_note_detail
    note_details_cache, \* self.note_details_cache, by note id
    inFlight,         \* per note id: requests awaiting the service
    externalCalls,    \* history: calls made to the service
    requests,         \* history: get_note_detail calls started
    fLast             \* history: what the latest get_note_detail call returned

schedVars == <<texts, keyword, batch_size, concurrent_tasks, pc, attempt, batchResult,
               semValue, semWaiters, acPc, results, calls, lastEvent, onlyExc, doneOrder>>

excelVars == <<rawFile, analyzedFile, filteredFile, runs, puts, last>>

mergeVars == <<mNew, mCached, mOut, mPc>>

enrichVars == <<noteTime, hasFields, df_relevant, relevant_file, detail_file, existing_details,
                batch, all_processed, consecutive_old_posts, pos, ePc,
                fetched, processed, flushes, stopAt, outcomes, faults>>

orchVars == <<aPc, attraction_result, analyzed, stages, raisedIn>>

driverVars == <<attractions, dI, dPc, batch_results, result_file, saveFaults>>

learnVars == <<orchVars, driverVars>>

searchVars == <<page, retry, sPc, all_notes, lastRequested, noMoreAt>>

fetchVars == <<note_details_cache, inFlight, externalCalls, requests, fLast>>

runnerVars == <<searchVars, fetchVars>>

vars == <<schedVars, lastResponse, excelVars, mergeVars, enrichVars, learnVars, runnerVars>>

\* ------------------------------------------------------------ DataFrames
\* A dataset is the columns the claims turn on and its rows in order.  A row
\* holds UID (0: the frame has no UID column), kw, the cell of the column
\* '关键词' ("NaN": no such column, or a cell pd.concat filled in), and the
\* three columns analyze_excel adds: score ('相关性分值'), flag ('相关性')
\* and expl ('相关性解释'); a raw dataset has none of the three and carries
\* 0, FALSE, 0 there.
\* "a" is the file of an attraction id, written by the search stage; "b" is a
\* dataset of another source
FileIds == {"a", "b"}
SearchIds == {"a"}
ForeignIds == {"b"}
Keywords == {"k1", "k2"}

\* no <id>_details.xlsx
NoStore == [exists |-> FALSE, rows |-> <<>>]

NoFile == [exists |-> FALSE, hasUID |-> FALSE, hasKw |-> FALSE, rows |-> <<>>]
Frame(hasUID, hasKw, rows) == [exists |-> TRUE, hasUID |-> hasUID, hasKw |-> hasKw, rows |-> rows]
RawRow(uid, kw) == [UID |-> uid, kw |-> kw, score |-> 0, flag |-> FALSE, expl |-> 0]

UIDsOf(df) == { df.rows[i].UID : i \in 1..Len(df.rows) }

\* the UID columns the raw datasets are drawn from: up to MaxRows rows in
\* ascending order of UID, with repeats (Sorted) or without (Strict)
SortedUidSeqs ==
    { us \in UNION { [1..n -> 1..MaxUid] : n \in 1..MaxRows } :
        \A i \in 1..(Len(us) - 1) : us[i] <= us[i + 1] }

StrictUidSeqs == { us \in SortedUidSeqs : \A i \in 1..(Len(us) - 1) : us[i] < us[i + 1] }

\* what search_attraction_notes writes: the rows process_keyword built, with
\* a UID column, '景区关键词' but no '关键词' column; one page may repeat a
\* note of another page
SearchFrames ==
    { Frame(TRUE, FALSE, [i \in 1..Len(us) |-> RawRow(us[i], "NaN")]) : us \in SortedUidSeqs }

\* datasets of the other sources the analyzer accepts, put into the
\* processed directory by hand: with a '关键词' column (holding "k1"), with
\* or without UID
ForeignFrames ==
    { Frame(TRUE, TRUE, [i \in 1..Len(us) |-> RawRow(us[i], "k1")]) : us \in StrictUidSeqs }
    \cup { Frame(FALSE, TRUE, <<RawRow(0, "k1")>>) }

\* ------------------------------------------------- _find_cached_analysis
\* the files of glob("*_analyzed.xlsx") that pass the test of line 156; the
\* first of them in glob's order, which the file system decides, is returned
CachedCandidates(files, kw) ==
    { files[g] : g \in { h \in FileIds :
          /\ files[h].exists
          /\ files[h].hasKw
          /\ files[h].rows # <<>>
          /\ files[h].rows[1].kw = kw } }

\* ----------------------------------------------------- _merge_with_cache
RECURSIVE RowsAt(_, _, _)
\* the rows of `rows` from index i on whose index is in `keep`, in order
RowsAt(rows, i, keep) ==
    IF i > Len(rows) THEN <<>>
    ELSE (IF i \in keep THEN <<rows[i]>> ELSE <<>>) \o RowsAt(rows, i + 1, keep)

\* drop_duplicates(subset=['UID'], keep='first')
DropDuplicatesFirst(rows) ==
    RowsAt(rows, 1, { i \in 1..Len(rows) : \A j \in 1..(i - 1) : rows[j].UID # rows[i].UID })

\* drop_duplicates(subset=['UID'], keep='last')
DropDuplicates(rows) ==
    RowsAt(rows, 1, { i \in 1..Len(rows) :
                        \A j \in (i + 1)..Len(rows) : rows[j].UID # rows[i].UID })

\* pd.concat([cached_df, new_df]): the union of the columns, a frame's
\* missing column filled with NaN
ConcatRows(first, second) ==
    LET fill(df) == [i \in 1..Len(df.rows) |->
                       [df.rows[i] EXCEPT !.kw = IF df.hasKw THEN @ ELSE "NaN",
                                          !.UID = IF df.hasUID THEN @ ELSE 0]]
    IN  fill(first) \o fill(second)

MergeWithCache(new_df, cached_df) ==
    IF ~new_df.hasUID \/ ~cached_df.hasUID THEN new_df
    ELSE Frame(TRUE, cached_df.hasKw \/ new_df.hasKw,
               DropDuplicates(ConcatRows(cached_df, new_df)))

\* ---------------------------------------------------------- analyze_excel
\* df[~df['UID'].isin(analyzed_uids)]
NewRowsAll(df, cached_df) == df.rows

NewRows(df, cached_df) ==
    SelectSeq(df.rows, LAMBDA r : r.UID \notin UIDsOf(cached_df))

\* the rows of the cached frame that the raw frame has
AllAnalyzedOfRaw(df, cached_df) ==
    [cached_df EXCEPT !.rows = SelectSeq(cached_df.rows, LAMBDA r : r.UID \in UIDsOf(df))]

\* len(new_df) == 0: what goes to _save_results is cached_df itself
AllAnalyzed(df, cached_df) == cached_df

\* lambda x: True if x > threshold else False
IsRelevantStrict(score) == score > RELEVANCE_THRESHOLD

\* lambda x: True if x >= self.RELEVANCE_THRESHOLD else False
IsRelevant(score) == score >= RELEVANCE_THRESHOLD

\* the three column assignments of lines 340-342
Classified(rows, res) ==
    [i \in 1..Len(rows) |->
        [rows[i] EXCEPT !.score = res[i].relevance_score,
                        !.flag = IsRelevant(res[i].relevance_score),
                        !.expl = res[i].explanation]]

\* df[df['相关性'] == True]
Filtered(df) == Frame(df.hasUID, df.hasKw, SelectSeq(df.rows, LAMBDA r : r.flag))

\* what analyze_contents may give for n texts: n results, one per text (a
\* score either side of the threshold), or an exception
TextResults ==
    { [relevance_score |-> 24, explanation |-> 1],
      [relevance_score |-> 25, explanation |-> 1] }

\* {'relevance_score': 0.0, 'explanation': f'分析错误: {str(e)}'}
ErrorResult == [relevance_score |-> 0, explanation |-> 2]

\* ------------------------------------------------------- analyze_contents
\* batches = [texts[i:i + batch_size] for i in range(0, len(texts), batch_size)]
NumBatches(txts, bs) == (Len(txts) + bs - 1) \div bs

BatchOf(txts, bs, t) == SubSeq(txts, (t - 1) * bs + 1, Min(t * bs, Len(txts)))

Tasks == DOMAIN pc

Batch(t) == BatchOf(texts, batch_size, t)

\* the positions of texts that batch t covers
Positions(t) == ((t - 1) * batch_size + 1)..Min(t * batch_size, Len(texts))

RECURSIVE ConcatInOrder(_, _)
ConcatInOrder(br, order) ==
    IF order = <<>> THEN <<>>
    ELSE br[Head(order)] \o ConcatInOrder(br, Tail(order))

\* results in the order the batches completed
GatherCompletionOrder(br) == ConcatInOrder(br, doneOrder)

\* batch_results = await asyncio.gather(*tasks); results.extend(batch) for each:
\* gather returns the results in the order of the awaitables passed in
GatherResults(br) == ConcatInOrder(br, [t \in 1..Len(br) |-> t])

\* results[:len(texts)]
Truncate(rs, n) == SubSeq(rs, 1, Min(n, Len(rs)))

\* ---------------------------------------------------- asyncio.Semaphore
\* acquire() takes a permit at once only when the semaphore is not locked():
\* the value is positive and nobody is queued
SemFreeNoCheck(value, waiters) == TRUE

SemFree(value, waiters) == value > 0 /\ waiters = <<>>

\* ---------------------------------------------- the service, as the model
\* drives it.  Text k, when the service answers properly, gets relevance
\* "k0%" and explanation k.
GoodItem(k) == DictItem(StrVal(<<Digits[k + 1], "0", "%">>), k)
ZeroItem == DictItem(StrVal(<<"0", "%">>), 0)
ExtraItem == DictItem(StrVal(<<"9", "9", "%">>), 99)
GoodItems(b) == [i \in 1..Len(b) |-> GoodItem(b[i])]
GoodMatches(b) == [i \in 1..Len(b) |-> Match(<<Digits[b[i] + 1], "0">>, b[i])]

\* the replies the scheduler runs are driven with
BasicReplies(b) ==
    { Raised,
      Completion(<<>>),
      Completion(<<NoneContent>>),
      Completion(<<EmptyContent>>),
      Completion(<<JsonOther>>),
      Completion(<<JsonList(GoodItems(b))>>),
      Completion(<<JsonList(SubSeq(GoodItems(b), 1, Len(b) - 1))>>),
      Completion(<<JsonList(Append(GoodItems(b), ExtraItem))>>),
      Completion(<<JsonList([i \in 1..Len(b) |-> ZeroItem])>>),
      Completion(<<Text(GoodMatches(b))>>),
      Completion(<<Text(<<>>)>>) }

\* ------------------------------------------------------------- actions
\* `async with semaphore` of batch task t.  gather starts the tasks in the
\* order they were created.
Acquire(t) ==
    /\ acPc = "gather"
    /\ pc[t] = "new"
    /\ \A u \in Tasks : u < t => pc[u] # "new"
    /\ IF SemFree(semValue, semWaiters)
       THEN /\ semValue' = semValue - 1
            /\ pc' = [pc EXCEPT ![t] = "entered"]
            /\ UNCHANGED semWaiters
       ELSE /\ semWaiters' = Append(semWaiters, t)
            /\ pc' = [pc EXCEPT ![t] = "waiting"]
            /\ UNCHANGED semValue
    /\ UNCHANGED <<texts, keyword, batch_size, concurrent_tasks, attempt, batchResult,
                   acPc, results, calls, lastEvent, onlyExc, doneOrder>>

\* analyze_batch up to its first await: the empty-input return, or the first
\* call of the service
Enter(t) ==
    /\ pc[t] = "entered"
    /\ IF Batch(t) = <<>> \/ keyword = ""
       THEN /\ batchResult' = [batchResult EXCEPT ![t] = Zeros(Len(Batch(t)))]
            /\ pc' = [pc EXCEPT ![t] = "returned"]
            /\ UNCHANGED <<calls, lastEvent>>
       ELSE /\ pc' = [pc EXCEPT ![t] = "calling"]
            /\ calls' = [calls EXCEPT ![t] = @ + 1]
            /\ lastEvent' = [lastEvent EXCEPT ![t] = "call"]
            /\ UNCHANGED batchResult
    /\ UNCHANGED <<texts, keyword, batch_size, concurrent_tasks, attempt,
                   semValue, semWaiters, acPc, results, onlyExc, doneOrder>>

\* the awaited call of batch task t ends with `response`
Reply(t, response) ==
    /\ pc[t] = "calling"
    /\ LET out == AttemptOutcome(response, Len(Batch(t)), attempt[t]) IN
       /\ onlyExc' = [onlyExc EXCEPT ![t] =
                        @ /\ (response.kind = "exception" \/ LoggingRaises(response))]
       /\ CASE out.next = "sleep" ->
                 /\ pc' = [pc EXCEPT ![t] = "sleeping"]
                 /\ lastEvent' = [lastEvent EXCEPT ![t] = "sleep"]
                 /\ UNCHANGED <<batchResult, attempt, calls>>
            [] out.next = "return" ->
                 /\ pc' = [pc EXCEPT ![t] = "returned"]
                 /\ batchResult' = [batchResult EXCEPT ![t] = out.results]
                 /\ UNCHANGED <<lastEvent, attempt, calls>>
            [] OTHER ->
                 \* the loop goes on to its next pass without a wait
                 /\ attempt' = [attempt EXCEPT ![t] = @ + 1]
                 /\ calls' = [calls EXCEPT ![t] = @ + 1]
                 /\ UNCHANGED <<pc, batchResult, lastEvent>>
    /\ UNCHANGED <<texts, keyword, batch_size, concurrent_tasks,
                   semValue, semWaiters, acPc, results, doneOrder>>

ServiceReply(t) ==
    /\ \E response \in BasicReplies(Batch(t)) : Reply(t, response)
    /\ UNCHANGED lastResponse

\* asyncio.sleep(self.retry_delay) is over: the next pass of the loop calls
\* the service again
SleepDone(t) ==
    /\ pc[t] = "sleeping"
    /\ attempt' = [attempt EXCEPT ![t] = @ + 1]
    /\ calls' = [calls EXCEPT ![t] = @ + 1]
    /\ lastEvent' = [lastEvent EXCEPT ![t] = "call"]
    /\ pc' = [pc EXCEPT ![t] = "calling"]
    /\ UNCHANGED <<texts, keyword, batch_size, concurrent_tasks, batchResult,
                   semValue, semWaiters, acPc, results, onlyExc, doneOrder>>

\* an exit that keeps the permit of a batch whose every attempt raised
ReleaseUnlessFailed(t) ==
    /\ pc[t] = "returned"
    /\ acPc = "gather"
    /\ IF onlyExc[t] /\ calls[t] = max_retries
       THEN /\ pc' = [pc EXCEPT ![t] = "done"]
            /\ UNCHANGED <<semValue, semWaiters>>
       ELSE IF semWaiters # <<>>
       THEN /\ pc' = [pc EXCEPT ![t] = "done", ![Head(semWaiters)] = "entered"]
            /\ semWaiters' = Tail(semWaiters)
            /\ UNCHANGED semValue
       ELSE /\ pc' = [pc EXCEPT ![t] = "done"]
            /\ semValue' = semValue + 1
            /\ UNCHANGED semWaiters
    /\ doneOrder' = Append(doneOrder, t)
    /\ UNCHANGED <<texts, keyword, batch_size, concurrent_tasks, attempt, batchResult,
                   acPc, results, calls, lastEvent, onlyExc>>

\* the exit of `async with semaphore`: release() hands the permit to the
\* oldest waiter, if any; the task is complete
Release(t) ==
    /\ pc[t] = "returned"
    /\ acPc = "gather"
    /\ IF semWaiters # <<>>
       THEN /\ pc' = [pc EXCEPT ![t] = "done", ![Head(semWaiters)] = "entered"]
            /\ semWaiters' = Tail(semWaiters)
            /\ UNCHANGED semValue
       ELSE /\ pc' = [pc EXCEPT ![t] = "done"]
            /\ semValue' = semValue + 1
            /\ UNCHANGED semWaiters
    /\ doneOrder' = Append(doneOrder, t)
    /\ UNCHANGED <<texts, keyword, batch_size, concurrent_tasks, attempt, batchResult,
                   acPc, results, calls, lastEvent, onlyExc>>

\* every task is complete: the concatenation and the final truncation
Gather ==
    /\ acPc = "gather"
    /\ \A t \in Tasks : pc[t] = "done"
    /\ results' = Truncate(GatherResults(batchResult), Len(texts))
    /\ acPc' = "returned"
    /\ UNCHANGED <<texts, keyword, batch_size, concurrent_tasks, pc, attempt, batchResult,
                   semValue, semWaiters, calls, lastEvent, onlyExc, doneOrder>>

\* the parts of the state a specification does not run
NoOp == [kind |-> "none", f |-> "a", kw |-> "k1", found |-> FALSE, byUID |-> FALSE,
         cachedUIDs |-> {}, sent |-> <<>>, called |-> FALSE, repeat |-> FALSE]

ExcelIdle ==
    /\ rawFile = [f \in FileIds |-> NoFile]
    /\ analyzedFile = [f \in FileIds |-> NoFile]
    /\ filteredFile = [f \in FileIds |-> NoFile]
    /\ runs = 0
    /\ puts = 0
    /\ last = NoOp

MergeIdle ==
    /\ mNew = NoFile
    /\ mCached = NoFile
    /\ mOut = NoFile
    /\ mPc = "idle"

EnrichIdle ==
    /\ noteTime = <<>>
    /\ hasFields = TRUE
    /\ df_relevant = <<>>
    /\ relevant_file = <<>>
    /\ detail_file = NoStore
    /\ existing_details = <<>>
    /\ batch = <<>>
    /\ all_processed = <<>>
    /\ consecutive_old_posts = 0
    /\ pos = 1
    /\ ePc = "idle"
    /\ fetched = {}
    /\ processed = {}
    /\ flushes = 0
    /\ stopAt = 0
    /\ outcomes = <<>>
    /\ faults = 0

\* the result dict as analyze_attraction builds it before its first stage
NonePath == "None"
EmptyResult ==
    [search_file |-> NonePath, analyzed_file |-> NonePath, detail_file |-> NonePath,
     success |-> FALSE, note_count |-> 0, relevant_count |-> 0, processed_count |-> 0]

OrchIdle ==
    /\ aPc = "idle"
    /\ attraction_result = EmptyResult
    /\ analyzed = [n |-> 0, r |-> 0]
    /\ stages = <<>>
    /\ raisedIn = ""

DriverIdle ==
    /\ attractions = 0
    /\ dI = 1
    /\ dPc = "idle"
    /\ batch_results = <<>>
    /\ result_file = <<>>
    /\ saveFaults = 0

LearnIdle == OrchIdle /\ DriverIdle

\* what get_note_detail returns when it returns None, and the value of fLast
\* before any call
NoDetail == [truthy |-> FALSE, isDict |-> FALSE, hasNote |-> FALSE, of |-> 0]
NoReturn == [id |-> 0, result |-> NoDetail, called |-> FALSE]

SearchIdle ==
    /\ page = 1
    /\ retry = 0
    /\ sPc = "idle"
    /\ all_notes = <<>>
    /\ lastRequested = 0
    /\ noMoreAt = 0

FetchIdle ==
    /\ note_details_cache = <<>>
    /\ inFlight = <<>>
    /\ externalCalls = 0
    /\ requests = 0
    /\ fLast = NoReturn

RunnerIdle == SearchIdle /\ FetchIdle

SchedIdle ==
    /\ texts = <<>>
    /\ keyword = ""
    /\ batch_size = 1
    /\ concurrent_tasks = 1
    /\ pc = <<>>
    /\ attempt = <<>>
    /\ batchResult = <<>>
    /\ calls = <<>>
    /\ lastEvent = <<>>
    /\ onlyExc = <<>>
    /\ semValue = 1
    /\ semWaiters = <<>>
    /\ acPc = "idle"
    /\ results = <<>>
    /\ doneOrder = <<>>
    /\ lastResponse = Raised

\* analyze_contents(texts, keyword) is called on an analyzer built with some
\* batch_size and concurrent_tasks
Init ==
    /\ LearnIdle
    /\ RunnerIdle
    /\ \E n \in 0..MaxTexts : texts = [i \in 1..n |-> i]
    /\ keyword \in {"", "k"}
    /\ batch_size \in 1..MaxBatchSize
    /\ concurrent_tasks \in 1..MaxConc
    /\ pc = [t \in 1..NumBatches(texts, batch_size) |-> "new"]
    /\ attempt = [t \in 1..NumBatches(texts, batch_size) |-> 0]
    /\ batchResult = [t \in 1..NumBatches(texts, batch_size) |-> <<>>]
    /\ calls = [t \in 1..NumBatches(texts, batch_size) |-> 0]
    /\ lastEvent = [t \in 1..NumBatches(texts, batch_size) |-> "none"]
    /\ onlyExc = [t \in 1..NumBatches(texts, batch_size) |-> TRUE]
    /\ semValue = concurrent_tasks
    /\ semWaiters = <<>>
    /\ acPc = "gather"
    /\ results = <<>>
    /\ doneOrder = <<>>
    /\ lastResponse = Raised
    /\ ExcelIdle
    /\ MergeIdle
    /\ EnrichIdle

Next ==
    \/ \E t \in Tasks : Acquire(t) /\ UNCHANGED <<lastResponse, excelVars, mergeVars, enrichVars, learnVars, runnerVars>>
    \/ \E t \in Tasks : Enter(t) /\ UNCHANGED <<lastResponse, excelVars, mergeVars, enrichVars, learnVars, runnerVars>>
    \/ \E t \in Tasks : ServiceReply(t) /\ UNCHANGED <<excelVars, mergeVars, enrichVars, learnVars, runnerVars>>
    \/ \E t \in Tasks : SleepDone(t) /\ UNCHANGED <<lastResponse, excelVars, mergeVars, enrichVars, learnVars, runnerVars>>
    \/ \E t \in Tasks : Release(t) /\ UNCHANGED <<lastResponse, excelVars, mergeVars, enrichVars, learnVars, runnerVars>>
    \/ Gather /\ UNCHANGED <<lastResponse, excelVars, mergeVars, enrichVars, learnVars, runnerVars>>

Spec == Init /\ [][Next]_vars

\* The same runs under the scheduling the event loop gives: a task that can
\* run is run, a sleep ends, and every call to the service returns or raises.
Fairness ==
    /\ WF_vars(\E t \in Tasks : Acquire(t) /\ UNCHANGED <<lastResponse, excelVars, mergeVars, enrichVars, learnVars, runnerVars>>)
    /\ WF_vars(\E t \in Tasks : Enter(t) /\ UNCHANGED <<lastResponse, excelVars, mergeVars, enrichVars, learnVars, runnerVars>>)
    /\ WF_vars(\E t \in Tasks : ServiceReply(t) /\ UNCHANGED <<excelVars, mergeVars, enrichVars, learnVars, runnerVars>>)
    /\ WF_vars(\E t \in Tasks : SleepDone(t) /\ UNCHANGED <<lastResponse, excelVars, mergeVars, enrichVars, learnVars, runnerVars>>)
    /\ WF_vars(\E t \in Tasks : Release(t) /\ UNCHANGED <<lastResponse, excelVars, mergeVars, enrichVars, learnVars, runnerVars>>)
    /\ WF_vars(Gather /\ UNCHANGED <<lastResponse, excelVars, mergeVars, enrichVars, learnVars, runnerVars>>)

SpecLive == Init /\ [][Next]_vars /\ Fairness

\* ------------------------------------------- analyze_batch on its own
\* every shape of reply the parser distinguishes, for a batch b
ItemLists(b) ==
    { SubSeq(GoodItems(b), 1, k) : k \in 0..Len(b) }
    \cup { Append(GoodItems(b), ExtraItem),
           [i \in 1..Len(b) |-> ZeroItem],
           <<NonDictItem>> \o GoodItems(b),
           <<NoRelItem(1)>> }
    \cup { <<DictItem(rel, 7)>> :
             rel \in { NumVal(150), NumVal(0 - 5), NumVal(40),
                       StrVal(<<"1", "5", "0", "%">>), StrVal(<<"-", "5", "%">>),
                       StrVal(<<"8", "5">>), StrVal(<<"x", "%">>),
                       StrVal(<<"5", "%", "%">>), OtherVal } }

MatchLists(b) ==
    { SubSeq(GoodMatches(b), 1, k) : k \in 0..Len(b) }
    \cup { Append(GoodMatches(b), Match(<<"9", "9">>, 0)),
           <<Match(<<"1", "5", "0">>, 7)>> }

ChoicesFor(b) ==
    {NoMessage, NoneContent, EmptyContent, NonStrContent, JsonOther}
    \cup { JsonList(il) : il \in ItemLists(b) }
    \cup { Text(ml) : ml \in MatchLists(b) }

AllReplies(b) ==
    {Raised, Completion(<<>>)}
    \cup { Completion(<<c>>) : c \in ChoicesFor(b) }
    \cup { Completion(<<c1, c2>>) : c1 \in ChoicesFor(b), c2 \in ChoicesFor(b) }

BatchServiceReply(t) ==
    \E response \in AllReplies(Batch(t)) :
        /\ Reply(t, response)
        /\ lastResponse' = response

\* analyze_batch(texts, keyword) called directly, with any list of texts
\* (the empty one too) as its single batch
InitBatch ==
    /\ LearnIdle
    /\ RunnerIdle
    /\ \E n \in 0..MaxTexts : texts = [i \in 1..n |-> i]
    /\ keyword \in {"", "k"}
    /\ batch_size = IF texts = <<>> THEN 1 ELSE Len(texts)
    /\ concurrent_tasks = 1
    /\ pc = [t \in {1} |-> "entered"]
    /\ attempt = [t \in {1} |-> 0]
    /\ batchResult = [t \in {1} |-> <<>>]
    /\ calls = [t \in {1} |-> 0]
    /\ lastEvent = [t \in {1} |-> "none"]
    /\ onlyExc = [t \in {1} |-> TRUE]
    /\ semValue = 0
    /\ semWaiters = <<>>
    /\ acPc = "batch"
    /\ results = <<>>
    /\ doneOrder = <<>>
    /\ lastResponse = Raised
    /\ ExcelIdle
    /\ MergeIdle
    /\ EnrichIdle

NextBatch ==
    \/ Enter(1) /\ UNCHANGED <<lastResponse, excelVars, mergeVars, enrichVars, learnVars, runnerVars>>
    \/ BatchServiceReply(1) /\ UNCHANGED <<excelVars, mergeVars, enrichVars, learnVars, runnerVars>>
    \/ SleepDone(1) /\ UNCHANGED <<lastResponse, excelVars, mergeVars, enrichVars, learnVars, runnerVars>>

SpecBatch == InitBatch /\ [][NextBatch]_vars

\* ------------------------------------------- the processed directory
\* search_attraction_notes persists the notes process_keyword found
SearchStage(f) ==
    /\ puts < MaxPuts
    /\ \E df \in SearchFrames : rawFile' = [rawFile EXCEPT ![f] = df]
    /\ puts' = puts + 1
    /\ last' = [NoOp EXCEPT !.kind = "put", !.f = f]
    /\ UNCHANGED <<analyzedFile, filteredFile, runs>>

\* a dataset of another source is put into the directory
PlaceRaw(f) ==
    /\ puts < MaxPuts
    /\ \E df \in ForeignFrames : rawFile' = [rawFile EXCEPT ![f] = df]
    /\ puts' = puts + 1
    /\ last' = [NoOp EXCEPT !.kind = "put", !.f = f]
    /\ UNCHANGED <<analyzedFile, filteredFile, runs>>

\* _save_results(df, file_name, keyword)
SaveResults(df, f) ==
    /\ analyzedFile' = [analyzedFile EXCEPT ![f] = df]
    /\ filteredFile' = [filteredFile EXCEPT ![f] = Filtered(df)]

\* analyze_excel(f, title_column, kw), from the read of the raw file to the
\* two files _save_results writes
AnalyzeExcel(f, kw) ==
    /\ runs < MaxRuns
    /\ rawFile[f].exists
    /\ runs' = runs + 1
    /\ UNCHANGED <<rawFile, puts>>
    /\ LET df == rawFile[f]
           cands == CachedCandidates(analyzedFile, kw)
           rep == last.kind = "analyze" /\ last.f = f /\ last.kw = kw
       IN  \E cached_df \in (IF cands = {} THEN {NoFile} ELSE cands) :
           LET found == cached_df.exists
               byUID == found /\ df.hasUID /\ cached_df.hasUID
               new_rows == IF byUID THEN NewRows(df, cached_df) ELSE df.rows
               uids(rows) == [i \in 1..Len(rows) |-> rows[i].UID]
               done(sent, called) ==
                   [kind |-> "analyze", f |-> f, kw |-> kw, found |-> found, byUID |-> byUID,
                    cachedUIDs |-> UIDsOf(cached_df), sent |-> uids(sent),
                    called |-> called, repeat |-> rep]
           IN  IF byUID /\ new_rows = <<>>
               THEN /\ SaveResults(AllAnalyzed(df, cached_df), f)
                    /\ last' = done(<<>>, FALSE)
               ELSE \E raises \in BOOLEAN :
                    \E res \in (IF raises THEN {[i \in 1..Len(new_rows) |-> ErrorResult]}
                                ELSE [1..Len(new_rows) -> TextResults]) :
                        LET new_df == Frame(df.hasUID, df.hasKw, Classified(new_rows, res))
                            final_df == IF found THEN MergeWithCache(new_df, cached_df)
                                        ELSE new_df
                        IN  /\ SaveResults(final_df, f)
                            /\ last' = done(new_rows, TRUE)

InitExcel ==
    /\ LearnIdle
    /\ RunnerIdle
    /\ SchedIdle
    /\ MergeIdle
    /\ EnrichIdle
    /\ ExcelIdle

NextExcel ==
    \/ \E f \in SearchIds : SearchStage(f) /\ UNCHANGED <<schedVars, lastResponse, mergeVars, enrichVars, learnVars, runnerVars>>
    \/ \E f \in ForeignIds : PlaceRaw(f) /\ UNCHANGED <<schedVars, lastResponse, mergeVars, enrichVars, learnVars, runnerVars>>
    \/ \E f \in FileIds, kw \in Keywords :
           AnalyzeExcel(f, kw) /\ UNCHANGED <<schedVars, lastResponse, mergeVars, enrichVars, learnVars, runnerVars>>

SpecExcel == InitExcel /\ [][NextExcel]_vars

\* ------------------------------------- _merge_with_cache on given frames
MergeRows == UNION { [1..n -> [UID : 1..MaxUid, kw : {"k1"}, score : {10, 90},
                               flag : {FALSE}, expl : {1}]] : n \in 0..MaxRows }

MergeFrames ==
    { Frame(TRUE, TRUE, [i \in 1..Len(rs) |-> [rs[i] EXCEPT !.flag = IsRelevant(rs[i].score)]]) :
        rs \in MergeRows }
    \cup { Frame(FALSE, TRUE, <<[UID |-> 0, kw |-> "k1", score |-> 90, flag |-> TRUE, expl |-> 1]>>) }

MergeStep ==
    /\ mPc = "ready"
    /\ mOut' = MergeWithCache(mNew, mCached)
    /\ mPc' = "done"
    /\ UNCHANGED <<mNew, mCached>>

InitMerge ==
    /\ LearnIdle
    /\ RunnerIdle
    /\ SchedIdle
    /\ ExcelIdle
    /\ EnrichIdle
    /\ mNew \in MergeFrames
    /\ mCached \in MergeFrames
    /\ mOut = NoFile
    /\ mPc = "ready"

NextMerge == MergeStep /\ UNCHANGED <<schedVars, lastResponse, excelVars, enrichVars, learnVars, runnerVars>>

SpecMerge == InitMerge /\ [][NextMerge]_vars

\* ======================================================= get_note_details
\* A publish time is <<t>>, or <<>> when the cell is absent, NaN or cannot be
\* turned into an integer.  A row of df_relevant holds its index label, UID,
\* time (the '发布时间' cell iterrows yields for it), pubtime (the cell of
\* df_relevant now) and status (the '爬取状态' cell).  A detail record holds
\* UID, time and status; the other columns play no part.
Row(label, t) == [index |-> label, UID |-> label, time |-> t, pubtime |-> t, status |-> ""]

DetailRecord(uid, t, st) == [UID |-> uid, time |-> t, status |-> st]

\* the order of publish times in a dataset of n notes of which the a latest
\* are at or after the cutoff: the latest note is the one labelled 1 + r
Shifts == {0, 1, -1}

RankOf(label, n, r) == ((label - 1 - r + n) % n) + 1

NoteTimes(n, a, r) == [label \in 1..n |-> cutoff_timestamp + a - RankOf(label, n, r)]

RECURSIVE SortDesc(_, _)
\* the rows at the positions S, latest '发布时间' first
SortDesc(rows, S) ==
    IF S = {} THEN <<>>
    ELSE LET m == CHOOSE i \in S : \A j \in S : rows[j].time[1] <= rows[i].time[1]
         IN  <<rows[m]>> \o SortDesc(rows, S \ {m})

\* df_relevant.sort_values(by='发布时间', ascending=False), done only when
\* the column is there
SortValues(rows, hasTime) == IF hasTime THEN SortDesc(rows, 1..Len(rows)) ELSE rows

\* the rows of the analyzed file with '相关性' True, in the file's order
RelevantRows(times, hasTime) ==
    [label \in 1..Len(times) |-> Row(label, IF hasTime THEN <<times[label]>> ELSE <<>>)]

\* the detail stores an earlier run may have left: none, the detail of the
\* first note, or the details of all notes
StoreChoices(times) ==
    { NoStore,
      [exists |-> TRUE, rows |-> <<DetailRecord(1, <<times[1]>>, "success")>>],
      [exists |-> TRUE,
       rows |-> [label \in 1..Len(times) |-> DetailRecord(label, <<times[label]>>, "success")]] }

UIDsIn(rows) == { rows[i].UID : i \in 1..Len(rows) }

\* {row['UID']: row.to_dict() for _, row in existing_df.iterrows()}
ExistingDetails(rows) ==
    [u \in UIDsIn(rows) |->
        rows[CHOOSE i \in 1..Len(rows) :
                rows[i].UID = u /\ \A j \in (i + 1)..Len(rows) : rows[j].UID # u]]

\* note_id in existing_details
InStoreNever(note_id, details) == FALSE

InStore(note_id, details) == note_id \in DOMAIN details

\* a check that takes a publish time it cannot read for one at the cutoff
StaleCheckResetsUnknown(t, count) ==
    IF t # <<>> /\ t[1] < cutoff_timestamp
    THEN [count |-> count + 1, stop |-> count + 1 >= old_posts_limit]
    ELSE [count |-> 0, stop |-> FALSE]

\* '发布时间' in x and pd.notna(x['发布时间']), and int(...) does not raise
Resolved(t) == t # <<>>

\* the check of one publish time against the cutoff: the new counter, and
\* whether the loop stops
StaleCheck(t, count) ==
    IF ~Resolved(t) THEN [count |-> count, stop |-> FALSE]
    ELSE IF t[1] < cutoff_timestamp
         THEN [count |-> count + 1, stop |-> count + 1 >= old_posts_limit]
         ELSE [count |-> 0, stop |-> FALSE]

\* remaining_indices = df_relevant.index[df_relevant.index > index]
Remaining(df, index) == { p \in 1..Len(df) : df[p].index > index }

\* df_relevant.loc[remaining_indices, '爬取状态'] = 'unnecessary'
MarkUnnecessary(df, index) ==
    [p \in 1..Len(df) |->
        IF p \in Remaining(df, index) THEN [df[p] EXCEPT !.status = "unnecessary"] ELSE df[p]]

\* NoteDetailRunner.save_to_excel(data, output_file, existing_df); an
\* exception of the write is caught and logged there
SaveToExcel(data, file, existing_df, writeFails) ==
    IF writeFails THEN file
    ELSE [exists |-> TRUE, rows |-> existing_df \o data]

\* the flush: current_df is the file read again, None if there is no file or
\* the read fails; None and an empty frame both leave result_df = data
FlushTo(file, data, readFails, writeFails) ==
    SaveToExcel(data, file,
                IF file.exists /\ ~readFails THEN file.rows ELSE <<>>,
                writeFails)

\* len(batch) > batch_size
FlushDueLate(b) == Len(b) > detail_batch_size

\* len(batch) >= batch_size
FlushDue(b) == Len(b) >= detail_batch_size

Bit(b) == IF b THEN 1 ELSE 0

\* the row keeps its status
MarkFailedNot(df, p) == df

\* df_relevant.loc[index, '爬取状态'] = 'failed'
MarkFailed(df, p) == [df EXCEPT ![p].status = "failed"]

\* the row the loop is at
CurRow == df_relevant[pos]

\* the early stop: the rows left are marked, the marking is persisted if
\* there is such a row, and the loop is left
EarlyStop(df) ==
    /\ df_relevant' = MarkUnnecessary(df, CurRow.index)
    /\ relevant_file' = IF Remaining(df, CurRow.index) # {}
                        THEN MarkUnnecessary(df, CurRow.index) ELSE relevant_file
    /\ stopAt' = pos
    /\ ePc' = "final"
    /\ UNCHANGED <<pos, detail_file, flushes>>

\* what follows batch.append(note_info) and all_processed.append(note_info):
\* the check of the record's publish time, then the flush of a full batch.
\* df is df_relevant as the item left it, count the counter before the check,
\* used the failures the item has met already; the cached branch ends in
\* `continue`, the fetch branch goes on to the delay
EndItem(rec, df, count, used, continues) ==
    LET chk == StaleCheck(rec.time, count)
        batch1 == Append(batch, rec)
    IN  /\ consecutive_old_posts' = chk.count
        /\ IF chk.stop
           THEN /\ EarlyStop(df)
                /\ batch' = batch1
                /\ faults' = faults + used
           ELSE /\ df_relevant' = df
                /\ UNCHANGED <<relevant_file, stopAt>>
                /\ ePc' = IF continues THEN "loop" ELSE "sleep"
                /\ pos' = IF continues THEN pos + 1 ELSE pos
                /\ IF FlushDue(batch1)
                   THEN \E readFails, writeFails \in BOOLEAN :
                           /\ readFails => detail_file.exists
                           /\ faults + used + Bit(readFails) + Bit(writeFails) <= MaxFaults
                           /\ detail_file' = FlushTo(detail_file, batch1, readFails, writeFails)
                           /\ batch' = <<>>
                           /\ flushes' = flushes + 1
                           /\ faults' = faults + used + Bit(readFails) + Bit(writeFails)
                   ELSE /\ batch' = batch1
                        /\ faults' = faults + used
                        /\ UNCHANGED <<detail_file, flushes>>

\* a row without UID or xsec_token is passed over
SkipRow ==
    /\ ePc = "loop" /\ pos <= Len(df_relevant)
    /\ ~hasFields
    /\ pos' = pos + 1
    /\ outcomes' = Append(outcomes, "skipped")
    /\ UNCHANGED <<noteTime, hasFields, df_relevant, relevant_file, detail_file,
                   existing_details, batch, all_processed, consecutive_old_posts, ePc,
                   fetched, processed, flushes, stopAt, faults>>

\* lines 298-359: the note is in existing_details
CachedItem ==
    /\ ePc = "loop" /\ pos <= Len(df_relevant)
    /\ hasFields
    /\ InStore(CurRow.UID, existing_details)
    /\ outcomes' = Append(outcomes, "cached")
    /\ LET note_info == [existing_details[CurRow.UID] EXCEPT !.status = "cached"]
       IN  /\ all_processed' = Append(all_processed, note_info)
           /\ processed' = processed \cup {pos}
           /\ EndItem(note_info, df_relevant, consecutive_old_posts, 0, TRUE)
    /\ UNCHANGED <<noteTime, hasFields, existing_details, fetched>>

\* lines 361-465: the check of the row's own publish time, the request to the
\* detail service and what is done with its answer
FetchItem ==
    /\ ePc = "loop" /\ pos <= Len(df_relevant)
    /\ hasFields
    /\ ~InStore(CurRow.UID, existing_details)
    /\ UNCHANGED <<noteTime, hasFields, existing_details>>
    /\ LET pre == StaleCheck(CurRow.time, consecutive_old_posts)
       IN  IF pre.stop
           THEN /\ consecutive_old_posts' = pre.count
                /\ EarlyStop(df_relevant)
                /\ outcomes' = Append(outcomes, "not_fetched")
                /\ UNCHANGED <<batch, all_processed, fetched, processed, faults>>
           ELSE /\ fetched' = fetched \cup {pos}
                /\ \E answer \in {"detail", "no_time", "none", "format_error"} :
                      /\ answer # "detail" => faults < MaxFaults
                      /\ outcomes' = Append(outcomes, answer)
                      /\ IF answer \in {"detail", "no_time"}
                         THEN LET t == IF answer = "detail" THEN <<noteTime[CurRow.UID]>> ELSE <<>>
                                  note_info == DetailRecord(CurRow.UID, t, "success")
                                  df == IF Resolved(t)
                                        THEN [df_relevant EXCEPT ![pos].pubtime = t]
                                        ELSE df_relevant
                              IN  /\ all_processed' = Append(all_processed, note_info)
                                  /\ processed' = processed \cup {pos}
                                  /\ EndItem(note_info, df, pre.count, Bit(answer # "detail"), FALSE)
                         ELSE /\ df_relevant' = IF answer = "none"
                                                THEN MarkFailed(df_relevant, pos)
                                                ELSE df_relevant
                              /\ consecutive_old_posts' = pre.count
                              /\ ePc' = "sleep"
                              /\ faults' = faults + 1
                              /\ UNCHANGED <<relevant_file, detail_file, batch, all_processed,
                                             pos, processed, flushes, stopAt>>

\* an exception of one item that ends the loop
RowExceptionEndsLoop ==
    /\ ePc = "loop" /\ pos <= Len(df_relevant)
    /\ hasFields
    /\ faults < MaxFaults
    /\ ePc' = "final"
    /\ faults' = faults + 1
    /\ outcomes' = Append(outcomes, "exception")
    /\ UNCHANGED <<noteTime, hasFields, df_relevant, relevant_file, detail_file,
                   existing_details, batch, all_processed, consecutive_old_posts, pos,
                   fetched, processed, flushes, stopAt>>

\* an exception inside the per-item try block, caught by `except Exception
\* as row_e`
RowException ==
    /\ ePc = "loop" /\ pos <= Len(df_relevant)
    /\ hasFields
    /\ faults < MaxFaults
    /\ ePc' = "sleep"
    /\ faults' = faults + 1
    /\ outcomes' = Append(outcomes, "exception")
    /\ UNCHANGED <<noteTime, hasFields, df_relevant, relevant_file, detail_file,
                   existing_details, batch, all_processed, consecutive_old_posts, pos,
                   fetched, processed, flushes, stopAt>>

\* await asyncio.sleep(3) returns
Sleep ==
    /\ ePc = "sleep"
    /\ ePc' = "loop"
    /\ pos' = pos + 1
    /\ UNCHANGED <<noteTime, hasFields, df_relevant, relevant_file, detail_file,
                   existing_details, batch, all_processed, consecutive_old_posts,
                   fetched, processed, flushes, stopAt, outcomes, faults>>

\* await asyncio.sleep(3) raises (the task is cancelled, or another error
\* outside the per-item try block): the loop is left through the outer
\* handler of line 506 or the exception propagates
Abort ==
    /\ ePc = "sleep"
    /\ faults < MaxFaults
    /\ ePc' = "aborted"
    /\ faults' = faults + 1
    /\ UNCHANGED <<noteTime, hasFields, df_relevant, relevant_file, detail_file,
                   existing_details, batch, all_processed, consecutive_old_posts, pos,
                   fetched, processed, flushes, stopAt, outcomes>>

\* lines 473-503: the last batch is saved, the relevant file is written and
\* get_note_details returns
Finish ==
    /\ ePc = "final" \/ (ePc = "loop" /\ pos > Len(df_relevant))
    /\ IF batch # <<>>
       THEN \E readFails, writeFails \in BOOLEAN :
               /\ readFails => detail_file.exists
               /\ faults + Bit(readFails) + Bit(writeFails) <= MaxFaults
               /\ detail_file' = FlushTo(detail_file, batch, readFails, writeFails)
               /\ faults' = faults + Bit(readFails) + Bit(writeFails)
       ELSE UNCHANGED <<detail_file, faults>>
    /\ relevant_file' = df_relevant
    /\ ePc' = "done"
    /\ UNCHANGED <<noteTime, hasFields, df_relevant, existing_details, batch, all_processed,
                   consecutive_old_posts, pos, fetched, processed, flushes, stopAt, outcomes>>

\* get_note_details(file_path) up to the loop: the relevant rows are written
\* to the relevant file, sorted if they have '发布时间', and the detail store
\* is loaded
InitEnrich ==
    /\ LearnIdle
    /\ RunnerIdle
    /\ SchedIdle
    /\ ExcelIdle
    /\ MergeIdle
    /\ \E n \in 1..MaxItems, hasTime \in BOOLEAN, readFails \in BOOLEAN :
       \E a \in 0..n, r \in Shifts :
       \E store \in StoreChoices(NoteTimes(n, a, r)) :
          /\ readFails => store.exists
          /\ noteTime = NoteTimes(n, a, r)
          /\ hasFields \in BOOLEAN
          /\ ~hasFields => (n = 1 /\ ~store.exists /\ ~hasTime)
          /\ relevant_file = RelevantRows(noteTime, hasTime)
          /\ df_relevant = SortValues(relevant_file, hasTime)
          /\ detail_file = store
          /\ existing_details = IF store.exists /\ ~readFails
                                THEN ExistingDetails(store.rows) ELSE <<>>
          /\ faults = Bit(readFails)
    /\ batch = <<>>
    /\ all_processed = <<>>
    /\ consecutive_old_posts = 0
    /\ pos = 1
    /\ ePc = "loop"
    /\ fetched = {}
    /\ processed = {}
    /\ flushes = 0
    /\ stopAt = 0
    /\ outcomes = <<>>

NextEnrich ==
    \/ SkipRow /\ UNCHANGED <<schedVars, lastResponse, excelVars, mergeVars, learnVars, runnerVars>>
    \/ CachedItem /\ UNCHANGED <<schedVars, lastResponse, excelVars, mergeVars, learnVars, runnerVars>>
    \/ FetchItem /\ UNCHANGED <<schedVars, lastResponse, excelVars, mergeVars, learnVars, runnerVars>>
    \/ RowException /\ UNCHANGED <<schedVars, lastResponse, excelVars, mergeVars, learnVars, runnerVars>>
    \/ Sleep /\ UNCHANGED <<schedVars, lastResponse, excelVars, mergeVars, learnVars, runnerVars>>
    \/ Abort /\ UNCHANGED <<schedVars, lastResponse, excelVars, mergeVars, learnVars, runnerVars>>
    \/ Finish /\ UNCHANGED <<schedVars, lastResponse, excelVars, mergeVars, learnVars, runnerVars>>

SpecEnrich == InitEnrich /\ [][NextEnrich]_vars

\* ------------------------------------------------------ analyze_attraction
\* The three stages are taken by what they hand back to analyze_attraction.

\* search_attraction_notes has no handler of its own: it raises, returns ""
\* when process_keyword found nothing, or writes <id>.xlsx with n notes and
\* returns its path
SearchOutcomes ==
    {[kind |-> "raise", n |-> 0], [kind |-> "empty", n |-> 0]}
    \cup { [kind |-> "file", n |-> n] : n \in 1..MaxNotes }

\* analyze_relevance returns None when analyze_excel raised, else the
\* path of <id>_analyzed.xlsx, which has r relevant rows among its n
ClassifyOutcomes(n) ==
    {[kind |-> "none", n |-> 0, r |-> 0]}
    \cup { [kind |-> "file", n |-> n, r |-> r] : r \in 0..n }

\* get_note_details returns None when no row is relevant, when an exception
\* reached its handler (exc), and when nothing was processed and no detail file exists; else the path of
\* <id>_details.xlsx, a file of d rows (records of earlier runs included) or,
\* after a failed write, one that cannot be read
EnrichOutcomes(r) ==
    { [kind |-> "none", exc |-> e, d |-> 0, readable |-> FALSE] : e \in BOOLEAN }
    \cup (IF r = 0 THEN {}
          ELSE { [kind |-> "path", exc |-> FALSE, d |-> d, readable |-> TRUE] :
                    d \in 0..(MaxNotes + 1) }
               \cup {[kind |-> "path", exc |-> FALSE, d |-> 0, readable |-> FALSE]})

\* an exception that leaves analyze_attraction
OuterHandlerReraises(res) == [pc |-> "raised", result |-> res]

\* `except Exception as e: logger.error(...); return results`
OuterHandler(res) == [pc |-> "returned", result |-> res]

\* stage 1 without the test of what it returned
SearchStepUntested ==
    /\ aPc = "search"
    /\ stages' = Append(stages, "search")
    /\ \E o \in SearchOutcomes :
         CASE o.kind = "raise" ->
                /\ aPc' = OuterHandler(attraction_result).pc
                /\ attraction_result' = OuterHandler(attraction_result).result
                /\ raisedIn' = "search"
                /\ UNCHANGED analyzed
           [] OTHER ->
                /\ aPc' = "classify"
                /\ attraction_result' =
                      [attraction_result EXCEPT
                         !.search_file = IF o.kind = "empty" THEN NonePath ELSE "a.xlsx"]
                /\ analyzed' = [n |-> o.n, r |-> 0]
                /\ UNCHANGED raisedIn
    /\ UNCHANGED driverVars

\* stage 1 and the test of what it returned
SearchStep ==
    /\ aPc = "search"
    /\ stages' = Append(stages, "search")
    /\ \E o \in SearchOutcomes :
         CASE o.kind = "raise" ->
                /\ aPc' = OuterHandler(attraction_result).pc
                /\ attraction_result' = OuterHandler(attraction_result).result
                /\ raisedIn' = "search"
                /\ UNCHANGED analyzed
           [] o.kind = "empty" ->
                /\ aPc' = "returned"
                /\ UNCHANGED <<attraction_result, analyzed, raisedIn>>
           [] OTHER ->
                /\ aPc' = "classify"
                /\ attraction_result' = [attraction_result EXCEPT !.search_file = "a.xlsx"]
                /\ analyzed' = [n |-> o.n, r |-> 0]
                /\ UNCHANGED raisedIn
    /\ UNCHANGED driverVars

\* stage 2, the test of what it returned and the counting of the analyzed
\* file, whose read may fail (caught, the counts stay 0)
ClassifyStep ==
    /\ aPc = "classify"
    /\ stages' = Append(stages, "classify")
    /\ \E o \in ClassifyOutcomes(analyzed.n), readOk \in BOOLEAN :
         IF o.kind = "none"
         THEN /\ readOk
              /\ aPc' = "returned"
              /\ raisedIn' = "classify"
              /\ UNCHANGED <<attraction_result, analyzed>>
         ELSE /\ aPc' = "enrich"
              /\ UNCHANGED raisedIn
              /\ analyzed' = [n |-> o.n, r |-> o.r]
              /\ attraction_result' =
                    [attraction_result EXCEPT
                       !.analyzed_file = "a_analyzed.xlsx",
                       !.note_count = IF readOk THEN o.n ELSE 0,
                       !.relevant_count = IF readOk THEN o.r ELSE 0]
    /\ UNCHANGED driverVars

\* stage 3, the counting of the detail file, `results['success'] = True`
EnrichStep ==
    /\ aPc = "enrich"
    /\ stages' = Append(stages, "enrich")
    /\ \E o \in EnrichOutcomes(analyzed.r) :
         /\ attraction_result' =
               IF o.kind = "none"
               THEN [attraction_result EXCEPT !.success = TRUE]
               ELSE [attraction_result EXCEPT
                       !.detail_file = "a_details.xlsx",
                       !.processed_count = IF o.readable THEN o.d ELSE 0,
                       !.success = TRUE]
         /\ raisedIn' = IF o.exc THEN "enrich" ELSE raisedIn
    /\ aPc' = "returned"
    /\ UNCHANGED <<analyzed, driverVars>>

\* the task is cancelled while a stage is awaited: CancelledError is not an
\* Exception, no handler of analyze_attraction takes it
Cancelled ==
    /\ aPc \in {"search", "classify", "enrich"}
    /\ aPc' = "cancelled"
    /\ UNCHANGED <<attraction_result, analyzed, stages, raisedIn, driverVars>>

InitAttraction ==
    /\ SchedIdle
    /\ lastResponse = Raised
    /\ ExcelIdle
    /\ MergeIdle
    /\ EnrichIdle
    /\ DriverIdle
    /\ RunnerIdle
    /\ aPc = "search"
    /\ attraction_result = EmptyResult
    /\ analyzed = [n |-> 0, r |-> 0]
    /\ stages = <<>>
    /\ raisedIn = ""

NextAttraction ==
    \/ SearchStep /\ UNCHANGED <<schedVars, lastResponse, excelVars, mergeVars, enrichVars, runnerVars>>
    \/ ClassifyStep /\ UNCHANGED <<schedVars, lastResponse, excelVars, mergeVars, enrichVars, runnerVars>>
    \/ EnrichStep /\ UNCHANGED <<schedVars, lastResponse, excelVars, mergeVars, enrichVars, runnerVars>>
    \/ Cancelled /\ UNCHANGED <<schedVars, lastResponse, excelVars, mergeVars, enrichVars, runnerVars>>

SpecAttraction == InitAttraction /\ [][NextAttraction]_vars

\* ----------------------------------------------------- process_attractions
\* the entry appended for pair k after analyze_attraction returned
ResultEntry(k, success) == [item |-> k, kind |-> "result", success |-> success]

\* the entry the handler of the loop body appends
error_result(k) == [item |-> k, kind |-> "error", success |-> FALSE]

\* the file stays as it is
save_results_skipped(rs, file, ok) == file

\* save_results: the whole list is written over the file; a failure of the
\* write is logged and "" returned, the file keeps what it had
save_results(rs, file, ok) == IF ok THEN rs ELSE file

\* load_attractions and `if not attractions: return []`
LoadAttractions ==
    /\ dPc = "load"
    /\ dPc' = IF attractions = 0 THEN "done" ELSE "item"
    /\ UNCHANGED <<attractions, dI, batch_results, result_file, saveFaults, orchVars>>

\* one pass of the loop body up to its sleep: analyze_attraction returns a
\* result, or something in the try block raises before the append and the
\* handler appends the error entry; either way save_results follows
ProcessAttraction ==
    /\ dPc = "item"
    /\ \E out \in {"success", "failure", "raise"}, ok \in BOOLEAN :
         /\ ~ok => saveFaults < MaxSaveFaults
         /\ saveFaults' = IF ok THEN saveFaults ELSE saveFaults + 1
         /\ LET entry == IF out = "raise" THEN error_result(dI)
                         ELSE ResultEntry(dI, out = "success")
                rs == Append(batch_results, entry) IN
            /\ batch_results' = rs
            /\ result_file' = save_results(rs, result_file, ok)
         /\ dPc' = IF out = "raise" \/ dI < attractions THEN "sleep" ELSE "done"
    /\ UNCHANGED <<attractions, dI, orchVars>>

\* the handler placed around the loop: an error entry is the last entry
DriverSleepEndsAfterError ==
    /\ dPc = "sleep"
    /\ IF dI < attractions /\ batch_results[Len(batch_results)].kind # "error"
       THEN dI' = dI + 1 /\ dPc' = "item"
       ELSE dI' = dI /\ dPc' = "done"
    /\ UNCHANGED <<attractions, batch_results, result_file, saveFaults, orchVars>>

\* asyncio.sleep(10) between pairs, asyncio.sleep(5) in the handler
DriverSleep ==
    /\ dPc = "sleep"
    /\ IF dI < attractions
       THEN dI' = dI + 1 /\ dPc' = "item"
       ELSE dI' = dI /\ dPc' = "done"
    /\ UNCHANGED <<attractions, batch_results, result_file, saveFaults, orchVars>>

\* the run is interrupted while a pair is analysed or during a sleep
Interrupt ==
    /\ dPc \in {"item", "sleep"}
    /\ dPc' = "interrupted"
    /\ UNCHANGED <<attractions, dI, batch_results, result_file, saveFaults, orchVars>>

InitDriver ==
    /\ SchedIdle
    /\ lastResponse = Raised
    /\ ExcelIdle
    /\ MergeIdle
    /\ EnrichIdle
    /\ OrchIdle
    /\ RunnerIdle
    /\ attractions \in 0..MaxAttractions
    /\ dI = 1
    /\ dPc = "load"
    /\ batch_results = <<>>
    /\ result_file = <<>>
    /\ saveFaults = 0

NextDriver ==
    \/ LoadAttractions /\ UNCHANGED <<schedVars, lastResponse, excelVars, mergeVars, enrichVars, runnerVars>>
    \/ ProcessAttraction /\ UNCHANGED <<schedVars, lastResponse, excelVars, mergeVars, enrichVars, runnerVars>>
    \/ DriverSleep /\ UNCHANGED <<schedVars, lastResponse, excelVars, mergeVars, enrichVars, runnerVars>>
    \/ Interrupt /\ UNCHANGED <<schedVars, lastResponse, excelVars, mergeVars, enrichVars, runnerVars>>

SpecDriver == InitDriver /\ [][NextDriver]_vars

\* --------------------------------------------------------- process_keyword
\* what one attempt on a page gives: a successful result, with or without
\* has_more, or one of the failures (search_xhs_notes returned None, a result
\* with "error", a result without success, an exception)
PageAnswers == {"more", "no_more", "none", "error", "not_success", "exception"}

\* `retry < max_retries`
RetryLeftOneMore(r) == r < search_max_retries

\* `retry < max_retries - 1`, the test of every failure branch
RetryLeft(r) == r < search_max_retries - 1

\* the break out of the retry loop: `if page < max_pages - 1` sleeps before
\* the next page, and range(1, max_pages) ends after page max_pages - 1
AfterPage(p) == IF p < max_pages - 1 THEN "page_sleep" ELSE "done"

\* one pass of the retry loop up to its sleep or its break
RequestPage ==
    /\ sPc = "request"
    /\ lastRequested' = page
    /\ \E answer \in PageAnswers :
         IF answer \in {"more", "no_more"}
         THEN /\ all_notes' = Append(all_notes, page)
              /\ noMoreAt' = IF answer = "no_more" /\ noMoreAt = 0 THEN page ELSE noMoreAt
              /\ sPc' = AfterPage(page)
         ELSE /\ sPc' = IF RetryLeft(retry) THEN "retry_sleep" ELSE AfterPage(page)
              /\ UNCHANGED <<all_notes, noMoreAt>>
    /\ UNCHANGED <<page, retry, fetchVars>>

\* asyncio.sleep(retry_delay) is over: the next pass of the retry loop
RetrySleepDone ==
    /\ sPc = "retry_sleep"
    /\ retry' = retry + 1
    /\ sPc' = "request"
    /\ UNCHANGED <<page, all_notes, lastRequested, noMoreAt, fetchVars>>

\* asyncio.sleep(page_delay) is over: the next pass of the page loop
PageSleepDone ==
    /\ sPc = "page_sleep"
    /\ page' = page + 1
    /\ retry' = 0
    /\ sPc' = "request"
    /\ UNCHANGED <<all_notes, lastRequested, noMoreAt, fetchVars>>

InitSearch ==
    /\ SchedIdle
    /\ lastResponse = Raised
    /\ ExcelIdle
    /\ MergeIdle
    /\ EnrichIdle
    /\ LearnIdle
    /\ FetchIdle
    /\ page = 1
    /\ retry = 0
    /\ sPc = "request"
    /\ all_notes = <<>>
    /\ lastRequested = 0
    /\ noMoreAt = 0

NextSearch ==
    \/ RequestPage /\ UNCHANGED <<schedVars, lastResponse, excelVars, mergeVars, enrichVars, learnVars>>
    \/ RetrySleepDone /\ UNCHANGED <<schedVars, lastResponse, excelVars, mergeVars, enrichVars, learnVars>>
    \/ PageSleepDone /\ UNCHANGED <<schedVars, lastResponse, excelVars, mergeVars, enrichVars, learnVars>>

SpecSearch == InitSearch /\ [][NextSearch]_vars

\* --------------------------------------------------------- get_note_detail
NoteIds == 1..MaxNoteIds

\* what the service can hand back for note id: None, a non-empty list, an
\* empty dict, a dict without 'note', a dict with 'note'
ServiceResults(id) ==
    { NoDetail,
      [truthy |-> TRUE, isDict |-> FALSE, hasNote |-> FALSE, of |-> id],
      [truthy |-> FALSE, isDict |-> TRUE, hasNote |-> FALSE, of |-> id],
      [truthy |-> TRUE, isDict |-> TRUE, hasNote |-> FALSE, of |-> id],
      [truthy |-> TRUE, isDict |-> TRUE, hasNote |-> TRUE, of |-> id] }

\* `result and isinstance(result, dict)`
ValidStructureAnyDict(result) == result.truthy /\ result.isDict

\* `result and isinstance(result, dict) and 'note' in result`
ValidStructure(result) == result.truthy /\ result.isDict /\ result.hasNote

\* get_note_detail up to its await: the answer from the cache, or the call
BeginRequest(id) ==
    /\ requests < MaxRequests
    /\ requests' = requests + 1
    /\ IF id \in DOMAIN note_details_cache
       THEN /\ fLast' = [id |-> id, result |-> note_details_cache[id], called |-> FALSE]
            /\ UNCHANGED <<inFlight, externalCalls>>
       ELSE /\ inFlight' = [inFlight EXCEPT ![id] = @ + 1]
            /\ externalCalls' = externalCalls + 1
            /\ UNCHANGED fLast
    /\ UNCHANGED <<note_details_cache, searchVars>>

\* the awaited call returns `result`: validated, cached and returned, or None
ServiceReturns(id) ==
    /\ inFlight[id] > 0
    /\ inFlight' = [inFlight EXCEPT ![id] = @ - 1]
    /\ \E result \in ServiceResults(id) :
         IF ValidStructure(result)
         THEN /\ note_details_cache' =
                    [i \in DOMAIN note_details_cache \cup {id} |->
                        IF i = id THEN result ELSE note_details_cache[i]]
              /\ fLast' = [id |-> id, result |-> result, called |-> TRUE]
         ELSE /\ fLast' = [id |-> id, result |-> NoDetail, called |-> TRUE]
              /\ UNCHANGED note_details_cache
    /\ UNCHANGED <<externalCalls, requests, searchVars>>

\* the awaited call raises (JSONDecodeError or any other Exception)
ServiceRaises(id) ==
    /\ inFlight[id] > 0
    /\ inFlight' = [inFlight EXCEPT ![id] = @ - 1]
    /\ fLast' = [id |-> id, result |-> NoDetail, called |-> TRUE]
    /\ UNCHANGED <<note_details_cache, externalCalls, requests, searchVars>>

InitFetch ==
    /\ SchedIdle
    /\ lastResponse = Raised
    /\ ExcelIdle
    /\ MergeIdle
    /\ EnrichIdle
    /\ LearnIdle
    /\ SearchIdle
    /\ note_details_cache = <<>>
    /\ inFlight = [id \in NoteIds |-> 0]
    /\ externalCalls = 0
    /\ requests = 0
    /\ fLast = NoReturn

NextFetch ==
    \/ \E id \in NoteIds : BeginRequest(id) /\ UNCHANGED <<schedVars, lastResponse, excelVars, mergeVars, enrichVars, learnVars>>
    \/ \E id \in NoteIds : ServiceReturns(id) /\ UNCHANGED <<schedVars, lastResponse, excelVars, mergeVars, enrichVars, learnVars>>
    \/ \E id \in NoteIds : ServiceRaises(id) /\ UNCHANGED <<schedVars, lastResponse, excelVars, mergeVars, enrichVars, learnVars>>

SpecFetch == InitFetch /\ [][NextFetch]_vars

\* ================================================================ claims

\* the tasks the gate has admitted and whose analyze_batch has not finished
InFlight == { t \in Tasks : pc[t] \in {"entered", "calling", "sleeping", "returned"} }

AllZero(rs) == \A i \in 1..Len(rs) : rs[i] = ZeroResult

\* C1: when analyze_contents has returned, the list has len(texts) entries
\* and entry i is entry (i - start of its batch) of what analyze_batch
\* returned for the batch holding texts[i], which the service computed for
\* text i or which is the zero entry; whatever order the batches completed in.
C1_OrderPreserved ==
    acPc = "returned" =>
        /\ Len(results) = Len(texts)
        /\ \A t \in Tasks : \A i \in Positions(t) :
              /\ results[i] = batchResult[t][i - (t - 1) * batch_size]
              /\ results[i].explanation \in {0, texts[i]}

\* a run whose second batch completed before its first and in which every
\* text got its own non-zero result
C1_Witness ==
    /\ acPc = "returned"
    /\ Len(doneOrder) >= 2
    /\ doneOrder[1] > doneOrder[2]
    /\ \A i \in 1..Len(texts) : results[i].explanation = texts[i]

\* C3: at most concurrent_tasks batches are in flight at any moment.
C3_BoundedInFlight == Cardinality(InFlight) <= concurrent_tasks

\* the gate is full, one admitted batch is in its retry delay and another
\* batch is waiting at the gate
C3_Witness ==
    /\ Cardinality(InFlight) = concurrent_tasks
    /\ \E t \in Tasks : pc[t] = "sleeping"
    /\ \E t \in Tasks : pc[t] = "waiting"

\* C4: a batch calls the service at most max_retries times, and a call that
\* is not the batch's first is issued only after a retry-delay wait.
C4_BoundedRetries ==
    /\ [](\A t \in Tasks : calls[t] <= max_retries)
    /\ [][\A t \in Tasks :
            (calls'[t] # calls[t] /\ calls[t] > 0) => lastEvent[t] = "sleep"]_vars

\* a batch that used all its attempts, failing in both ways, and returned
C4_Witness ==
    \E t \in Tasks :
        /\ calls[t] = max_retries
        /\ pc[t] \in {"returned", "done"}
        /\ ~onlyExc[t]
        /\ AllZero(batchResult[t])

\* C5: when analyze_contents has returned, a batch whose every attempt raised
\* holds zero entries at its own positions and every other batch's results
\* are where analyze_batch returned them.
C5_FailedBatchZeroed ==
    acPc = "returned" =>
        \A t \in Tasks :
            (onlyExc[t] /\ calls[t] > 0) =>
                /\ Len(results) = Len(texts)
                /\ \A i \in Positions(t) : results[i] = ZeroResult
                /\ \A u \in Tasks \ {t} : \A i \in Positions(u) :
                      results[i] = batchResult[u][i - (u - 1) * batch_size]

\* the first batch failed all its attempts and a later batch got its results
C5_Witness ==
    /\ acPc = "returned"
    /\ \E t \in Tasks, u \in Tasks :
          /\ t < u
          /\ onlyExc[t] /\ calls[t] = max_retries
          /\ ~AllZero(batchResult[u])
          /\ \A i \in Positions(u) : results[i].explanation = texts[i]

\* what the latest reply parses to before padding and truncation
RawOfLast == ParseChoices(lastResponse.choices, Len(texts))

LastParsed ==
    /\ lastResponse.kind = "completion"
    /\ ~LoggingRaises(lastResponse)
    /\ ~ParseRaises(lastResponse.choices)
    /\ RawOfLast # <<>>

\* C2: analyze_batch returns len(texts) results whatever the service did; a
\* parsed vector shorter than the batch is padded with zero entries and a
\* longer one is cut.
C2_BatchLength ==
    pc[1] = "returned" =>
        /\ Len(batchResult[1]) = Len(texts)
        /\ (calls[1] > 0 /\ LastParsed) =>
              \A i \in 1..Len(texts) :
                  batchResult[1][i] =
                      IF i <= Len(RawOfLast) THEN RawOfLast[i] ELSE ZeroResult

\* a batch of two or more texts answered with a shorter array, padded
C2_Witness ==
    /\ pc[1] = "returned"
    /\ calls[1] > 0 /\ LastParsed
    /\ Len(RawOfLast) < Len(texts)
    /\ Len(texts) >= 2
    /\ batchResult[1][Len(texts)] = ZeroResult
    /\ batchResult[1][1] # ZeroResult

\* C7 (as claimed): every relevance_score analyze_batch returns is in 0..100.
C7_ScoreInRange ==
    pc[1] = "returned" =>
        \A i \in 1..Len(batchResult[1]) :
            batchResult[1][i].relevance_score \in 0..100

\* C6: in every classified dataset analyze_excel has persisted, each row's
\* flag is TRUE exactly when its score is at least the threshold.
C6_FlagFollowsScore ==
    \A f \in FileIds :
        analyzedFile[f].exists =>
            \A i \in 1..Len(analyzedFile[f].rows) :
                analyzedFile[f].rows[i].flag
                    <=> (analyzedFile[f].rows[i].score >= RELEVANCE_THRESHOLD)

\* a persisted dataset that holds a row carried over from the cache with a
\* score on the threshold, next to a row zeroed by a classification error
C6_Witness ==
    /\ last.kind = "analyze" /\ last.found /\ last.called
    /\ \E i, j \in 1..Len(analyzedFile[last.f].rows) :
          LET rows == analyzedFile[last.f].rows IN
          /\ rows[i].UID \in last.cachedUIDs
          /\ rows[i].score = RELEVANCE_THRESHOLD /\ rows[i].flag
          /\ rows[j].UID \notin last.cachedUIDs
          /\ rows[j].expl = ErrorResult.explanation /\ ~rows[j].flag

\* the UID column of a dataset
UIDColumn(df) == [i \in 1..Len(df.rows) |-> df.rows[i].UID]

\* C8: when the latest analyze_excel run found a cached dataset and both
\* datasets have the UID column, the rows it sent to the classification are
\* the raw rows whose UID is not in the cached dataset, in order, and the
\* classification was called only if there is such a row.
C8_OnlyNewRowsSent ==
    (last.kind = "analyze" /\ last.found /\ last.byUID) =>
        /\ last.sent = SelectSeq(UIDColumn(rawFile[last.f]),
                                 LAMBDA u : u \notin last.cachedUIDs)
        /\ \A i \in 1..Len(last.sent) : last.sent[i] \notin last.cachedUIDs
        /\ last.called <=> (last.sent # <<>>)

\* a run whose raw dataset held rows of both kinds: some already cached,
\* some new
C8_Witness ==
    /\ last.kind = "analyze" /\ last.found /\ last.byUID
    /\ last.called
    /\ last.sent # <<>>
    /\ Len(last.sent) < Len(rawFile[last.f].rows)

\* the (UID, score) pairs of a dataset
ScorePairs(df) == { <<df.rows[i].UID, df.rows[i].score>> : i \in 1..Len(df.rows) }

\* C9 (as claimed): an analyze_excel run that directly follows a run on the
\* same raw file with the same keyword does not call the classification and
\* persists the scores the first run persisted.
C9_SecondRunIdempotent ==
    [][(runs' = runs + 1 /\ last'.repeat) =>
          /\ ~last'.called
          /\ ScorePairs(analyzedFile'[last'.f]) = ScorePairs(analyzedFile[last'.f])]_vars

\* the last row of `rows` that has UID u
LastRowOf(rows, u) ==
    rows[CHOOSE i \in 1..Len(rows) :
            rows[i].UID = u /\ \A j \in (i + 1)..Len(rows) : rows[j].UID # u]

\* C10: for two frames that both have the UID column, the merge holds
\* exactly one row for every UID of either frame, and for a UID of the new
\* frame that row is the new frame's (its last one for that UID).
C10_MergeKeepsNew ==
    (mPc = "done" /\ mNew.hasUID /\ mCached.hasUID) =>
        /\ UIDsOf(mOut) = UIDsOf(mNew) \cup UIDsOf(mCached)
        /\ \A u \in UIDsOf(mOut) :
              Cardinality({ i \in 1..Len(mOut.rows) : mOut.rows[i].UID = u }) = 1
        /\ \A u \in UIDsOf(mNew) :
              \E i \in 1..Len(mOut.rows) : mOut.rows[i] = LastRowOf(mNew.rows, u)

\* a UID cached with score 10 and classified anew with score 90: one row of
\* the merge has it, with score 90, beside a row of another UID
C10_Witness ==
    /\ mPc = "done" /\ mNew.hasUID /\ mCached.hasUID
    /\ \E u \in UIDsOf(mNew) \cap UIDsOf(mCached) :
          /\ \A i \in 1..Len(mCached.rows) : mCached.rows[i].UID = u => mCached.rows[i].score = 10
          /\ \A i \in 1..Len(mNew.rows) : mNew.rows[i].UID = u => mNew.rows[i].score = 90
          /\ \A i \in 1..Len(mOut.rows) : mOut.rows[i].UID = u => mOut.rows[i].score = 90
          /\ Cardinality({ i \in 1..Len(mOut.rows) : mOut.rows[i].UID = u }) = 1
    /\ Len(mOut.rows) >= 2

\* C11 (as claimed): a persisted classified dataset with the UID column has
\* at most one row per UID.
C11_OneRowPerUID ==
    \A f \in FileIds :
        (analyzedFile[f].exists /\ analyzedFile[f].hasUID) =>
            \A i, j \in 1..Len(analyzedFile[f].rows) :
                analyzedFile[f].rows[i].UID = analyzedFile[f].rows[j].UID => i = j

\* C12: an analyze_excel run that finds a cached dataset holding every UID
\* of the raw dataset does not call the classification, and the dataset it
\* persists is that cached dataset, row for row.
C12_AllCachedVerbatim ==
    [][(runs' = runs + 1 /\ last'.found /\ last'.byUID
          /\ UIDsOf(rawFile[last'.f]) \subseteq last'.cachedUIDs) =>
          /\ ~last'.called
          /\ last'.sent = <<>>
          /\ \E c \in CachedCandidates(analyzedFile, last'.kw) :
                /\ UIDsOf(c) = last'.cachedUIDs
                /\ analyzedFile'[last'.f] = c]_vars

\* the search stage's file analysed against the cache another file's run
\* left, which holds more notes than the raw file: the cache is persisted
\* whole under the raw file's name
C12_Witness ==
    /\ last.kind = "analyze" /\ last.found /\ last.byUID /\ ~last.called
    /\ last.f = "a"
    /\ analyzedFile["a"] = analyzedFile["b"]
    /\ UIDsOf(rawFile["a"]) # UIDsOf(analyzedFile["a"])
    /\ \E i \in 1..Len(analyzedFile["a"].rows) : analyzedFile["a"].rows[i].flag

\* the publish time of the note at position p of the iteration
TimeAt(p) == noteTime[df_relevant[p].UID]

\* C13 (as claimed): when the run has ended without any failure, over six or
\* more items iterated latest first of which the first three are at or after
\* the cutoff and the fourth and fifth before it, the loop processed exactly
\* the first five items and stopped at the fifth.
C13_StopsAfterFifth ==
    (/\ ePc = "done" /\ faults = 0 /\ hasFields
     /\ Len(df_relevant) >= 6
     /\ \A p \in 1..(Len(df_relevant) - 1) : TimeAt(p) > TimeAt(p + 1)
     /\ \A p \in 1..3 : TimeAt(p) >= cutoff_timestamp
     /\ \A p \in 4..5 : TimeAt(p) < cutoff_timestamp)
    => /\ processed = 1..5
       /\ stopAt = 5
       /\ \A p \in 6..Len(df_relevant) : p \notin fetched

\* C14 (as claimed): no item the loop has reused from the store or fetched
\* has crawl status unnecessary.
C14_ProcessedNeverUnnecessary ==
    \A p \in processed \cup fetched : df_relevant[p].status # "unnecessary"

\* C15 (as claimed): once the early stop has fired at a position, every item
\* at a later position is marked unnecessary in the persisted relevant
\* dataset and has not been fetched.
C15_RestMarkedAtStop ==
    stopAt # 0 =>
        \A p \in (stopAt + 1)..Len(df_relevant) :
            /\ p \notin fetched
            /\ \E q \in 1..Len(relevant_file) :
                  /\ relevant_file[q].UID = df_relevant[p].UID
                  /\ relevant_file[q].status = "unnecessary"

\* C16: an item whose UID is in the store loaded before the loop is never
\* requested from the detail service; every record made for such an item is
\* the stored one with crawl status cached, and in a run without failures
\* every such item the loop has passed has its record.
C16_StoredNeverFetched ==
    /\ \A p \in fetched : df_relevant[p].UID \notin DOMAIN existing_details
    /\ \A i \in 1..Len(all_processed) :
          all_processed[i].UID \in DOMAIN existing_details =>
              all_processed[i] = [existing_details[all_processed[i].UID] EXCEPT !.status = "cached"]
    /\ \A p \in 1..Len(df_relevant) :
          (faults = 0 /\ p < pos /\ df_relevant[p].UID \in DOMAIN existing_details)
              => p \in processed

\* a finished run over a store that held one of several notes: that note was
\* reused, others were fetched
C16_Witness ==
    /\ ePc = "done"
    /\ fetched # {}
    /\ \E i \in 1..Len(all_processed) :
          /\ all_processed[i].UID \in DOMAIN existing_details
          /\ all_processed[i].status = "cached"
    /\ \E i \in 1..Len(all_processed) : all_processed[i].status = "success"

\* C17 (as claimed): the detail store holds at most one record per UID.
C17_OneRecordPerUID ==
    \A i, j \in 1..Len(detail_file.rows) :
        detail_file.rows[i].UID = detail_file.rows[j].UID => i = j

\* C18 (as claimed): no step removes a UID from the detail store.
C18_FlushKeepsRecords ==
    [][UIDsIn(detail_file.rows) \subseteq UIDsIn(detail_file'.rows)]_vars

\* C19: while no early stop has fired, at every item boundary of a run that
\* has produced k records there have been k div batch_size threshold flushes
\* and the pending batch holds k mod batch_size records.
C19_FlushEveryBatchSize ==
    (ePc \in {"loop", "sleep", "aborted"} /\ stopAt = 0) =>
        /\ flushes = Len(all_processed) \div detail_batch_size
        /\ Len(batch) = Len(all_processed) % detail_batch_size

\* batch_size + 2 records produced, some reused and some fetched: one flush
\* done, two records pending
C19_Witness ==
    /\ ePc = "sleep" /\ stopAt = 0
    /\ Len(all_processed) = detail_batch_size + 2
    /\ flushes = 1
    /\ Len(batch) = 2
    /\ \E i \in 1..Len(all_processed) : all_processed[i].status = "cached"

\* C20 (as claimed): when the enrichment operation has ended, every record
\* of the pending batch is in the detail store.
C20_PendingFlushedAtEnd ==
    ePc \in {"done", "aborted"} =>
        \A i \in 1..Len(batch) : batch[i].UID \in UIDsIn(detail_file.rows)

\* the loop has just ended its work on the item at pos
ItemStep == Len(outcomes') = Len(outcomes) + 1

\* C21: an item whose fetch gave no detail has its row marked failed by that
\* step, which leaves the pending batch, the records of the run and the
\* detail store as they were; and no record of the run is for such an item.
C21_FailedFetchMarksRow ==
    /\ [](\A p \in 1..Len(outcomes) :
             outcomes[p] = "none" =>
                 /\ p \in fetched /\ p \notin processed
                 /\ df_relevant[p].UID \notin UIDsIn(all_processed) \cup UIDsIn(batch))
    /\ [][(ItemStep /\ outcomes'[pos] = "none") =>
             /\ df_relevant'[pos].status = "failed"
             /\ batch' = batch
             /\ all_processed' = all_processed
             /\ detail_file' = detail_file]_vars

\* a finished run in which one fetch failed and another gave a record: the
\* relevant file has the failed row, the detail store only the other note
C21_Witness ==
    /\ ePc = "done"
    /\ detail_file.exists
    /\ \E p \in 1..Len(outcomes) :
          /\ outcomes[p] = "none"
          /\ relevant_file[p].status = "failed"
          /\ relevant_file[p].UID \notin UIDsIn(detail_file.rows)
    /\ \E i \in 1..Len(detail_file.rows) : detail_file.rows[i].status = "success"

\* C22 (as claimed): the loop goes from one item to the next only through
\* the delay.
C22_DelayBetweenItems ==
    [][(pos' = pos + 1 /\ pos' <= Len(df_relevant)) => ePc = "sleep"]_vars

\* C28 (as claimed): the work on one item moves consecutive_old_posts by at
\* most one step, up by one or back to 0, and the early stop does not fire
\* on the first item of a run.
C28_CounterStepsByOne ==
    [][ItemStep =>
          /\ consecutive_old_posts' \in {0, consecutive_old_posts, consecutive_old_posts + 1}
          /\ (stopAt' # 0 => Len(outcomes') >= 2)]_vars

\* the ways an item ends without a publish time read from its detail
Unresolved == {"no_time", "none", "format_error", "exception", "skipped"}

\* C29: an item for which neither the row nor a detail gives a publish time
\* leaves consecutive_old_posts as it was and does not stop the loop.
C29_UnresolvedKeepsCounter ==
    [][(ItemStep /\ ~Resolved(CurRow.time) /\ outcomes'[pos] \in Unresolved) =>
          /\ consecutive_old_posts' = consecutive_old_posts
          /\ stopAt' = stopAt]_vars

\* the early stop fired on two stale items with an unresolved one between
C29_Witness ==
    /\ stopAt >= 3
    /\ consecutive_old_posts = old_posts_limit
    /\ outcomes[stopAt] = "detail"
    /\ outcomes[stopAt - 1] \in Unresolved
    /\ outcomes[stopAt - 2] = "detail"
    /\ \A p \in (stopAt - 2)..stopAt : ~Resolved(df_relevant[p].time)

\* the run made a detail record for the item at position p
HasRecord(p) == df_relevant[p].UID \in UIDsIn(all_processed)

\* the row at position p carries a crawl status
HasRowStatus(p) == df_relevant[p].status \in {"failed", "unnecessary"}

\* C30 (as claimed): after a run without any failure over rows that have
\* their fields, every item has a crawl status either on its record or on
\* its row, and not on both.
C30_OneStatusEach ==
    (ePc = "done" /\ faults = 0 /\ hasFields) =>
        \A p \in 1..Len(df_relevant) : HasRecord(p) # HasRowStatus(p)

\* C26: a reply that parses to zero entries only is retried after the delay
\* while attempts remain and is returned as it is on the last attempt; a
\* reply that parses to any non-zero score or non-empty explanation is
\* returned at once.
C26_RetryOnlyAllZero ==
    [][(pc[1] = "calling" /\ pc'[1] # "calling"
        /\ lastResponse'.kind = "completion" /\ ~LoggingRaises(lastResponse')) =>
          LET parsed == ParseResponse(lastResponse', Len(texts)) IN
          IF AllZero(parsed) /\ calls[1] < max_retries
          THEN pc'[1] = "sleeping"
          ELSE pc'[1] = "returned" /\ batchResult'[1] = parsed]_vars

\* the last attempt got a reply that parsed to zeros, which was returned
C26_Witness ==
    /\ pc[1] = "returned"
    /\ calls[1] = max_retries
    /\ Len(texts) >= 1
    /\ LastParsed
    /\ AllZero(RawOfLast)
    /\ batchResult[1] = Zeros(Len(texts))

\* the latest reply is one JSON array
LastIsArray ==
    /\ lastResponse.kind = "completion"
    /\ Len(lastResponse.choices) = 1
    /\ lastResponse.choices[1].kind = "json_list"

\* C27 (as claimed): for a reply that is one JSON array, the returned result
\* at position i is the parse of the array's element i wherever that element
\* is an object.
C27_PositionsNotShifted ==
    (pc[1] = "returned" /\ calls[1] > 0 /\ LastIsArray) =>
        LET items == lastResponse.choices[1].items IN
        \A i \in 1..Min(Len(texts), Len(items)) :
            items[i].kind = "dict" => batchResult[1][i] = ParseItems(<<items[i]>>)[1]

\* C23: analyze_attraction ends by returning its result record, with every
\* field set, whatever its stages did; an Exception raised in a stage never
\* leaves it, and after one raised by the search the record is the initial
\* one, with success = FALSE.
C23_NeverRaises ==
    /\ aPc # "raised"
    /\ aPc = "returned" =>
          /\ DOMAIN attraction_result = DOMAIN EmptyResult
          /\ attraction_result.success \in BOOLEAN
          /\ attraction_result.note_count \in 0..(MaxNotes + 1)
          /\ attraction_result.relevant_count \in 0..(MaxNotes + 1)
          /\ attraction_result.processed_count \in 0..(MaxNotes + 2)
          /\ raisedIn = "search" => attraction_result = EmptyResult

\* the enrichment raised after two completed stages and the caller got the
\* record, with the counts of the analyzed file
C23_Witness ==
    /\ aPc = "returned"
    /\ raisedIn = "enrich"
    /\ stages = <<"search", "classify", "enrich">>
    /\ attraction_result.note_count > 0
    /\ attraction_result.detail_file = NonePath

\* C24 (as claimed): a returned record of a run in which a stage gave
\* nothing (no search file, no analyzed file or no detail file) has
\* success = FALSE, and the files of the stages before it are set.
C24_EmptyStageFails ==
    aPc = "returned" =>
        /\ (attraction_result.search_file = NonePath
              \/ attraction_result.analyzed_file = NonePath
              \/ attraction_result.detail_file = NonePath)
             => ~attraction_result.success
        /\ attraction_result.analyzed_file # NonePath
             => attraction_result.search_file # NonePath
        /\ attraction_result.detail_file # NonePath
             => attraction_result.analyzed_file # NonePath

C31_ClearedOnlyWhenWritten ==
    [][(Len(all_processed') = Len(all_processed) + 1 /\ batch' = <<>>) =>
          \A i \in (Len(all_processed') - Len(batch))..Len(all_processed') :
              all_processed'[i].UID \in UIDsIn(detail_file'.rows)]_vars

\* C32: an exception inside the work on one item takes the loop to the delay
\* at the same item with the counter and the stop as they were; from the
\* delay the loop goes to the very next position; and the loop has been at
\* every position before the one it is at.
C32_ExceptionKeepsLoop ==
    /\ [](ePc \in {"loop", "sleep"} => Len(outcomes) \in {pos - 1, pos})
    /\ [][(ItemStep /\ outcomes'[pos] \in {"exception", "format_error"}) =>
             /\ ePc' = "sleep"
             /\ pos' = pos
             /\ stopAt' = stopAt]_vars
    /\ [][(ePc = "sleep" /\ ePc' = "loop") => pos' = pos + 1]_vars

\* an item raised and the item after it was fetched and gave a record
C32_Witness ==
    \E p \in 1..(Len(outcomes) - 1) :
        /\ outcomes[p] = "exception"
        /\ outcomes[p + 1] = "detail"
        /\ (p + 1) \in processed

\* the stages in the order of the source
StageOrder == <<"search", "classify", "enrich">>

\* C33: the stages started in one run are a prefix of Search, Classify,
\* Enrich, each at most once; classification has started only if the search
\* wrote a file of at least one note, enrichment only if classification
\* returned the analyzed file.
C33_StagesInOrder ==
    /\ \E k \in 0..3 : stages = SubSeq(StageOrder, 1, k)
    /\ Len(stages) >= 2 =>
          /\ attraction_result.search_file # NonePath
          /\ analyzed.n >= 1
    /\ Len(stages) >= 3 => attraction_result.analyzed_file # NonePath

\* a run through all three stages that ended with a detail file
C33_Witness ==
    /\ aPc = "returned"
    /\ stages = StageOrder
    /\ attraction_result.detail_file # NonePath
    /\ attraction_result.processed_count > 0
    /\ attraction_result.success

\* what analyze_attraction counts once get_note_details has returned:
\* len(pd.read_excel(detail_file)) and len(df[df['相关性'] == True])
ProcessedCount == Len(detail_file.rows)
RelevantCount == Len(df_relevant)

\* C35 (as claimed): after an enrichment without any failure, whatever the
\* detail store held from earlier runs of the same attraction, the rows of
\* the detail file are not more than the relevant rows.
C35_CountsOrdered ==
    (ePc = "done" /\ faults = 0 /\ detail_file.exists) => ProcessedCount <= RelevantCount

\* C34: analyze_contents eventually returns, with every batch admitted and
\* complete, every permit back at the gate and nobody queued there.
C34_EventuallyReturns ==
    <>[](/\ acPc = "returned"
         /\ \A t \in Tasks : pc[t] = "done"
         /\ semValue = concurrent_tasks
         /\ semWaiters = <<>>)

\* a batch waits at the gate while a batch that failed all its attempts is
\* about to leave it
C34_Witness ==
    \E t \in Tasks, u \in Tasks :
        /\ pc[t] = "waiting"
        /\ pc[u] = "returned"
        /\ onlyExc[u] /\ calls[u] = max_retries

\* C36 (as claimed): once a page was answered with has_more false, no page
\* after it is requested.
C36_StopsAtLastPage ==
    noMoreAt # 0 => lastRequested <= noMoreAt

C38_CacheHoldsValid ==
    /\ [](\A id \in DOMAIN note_details_cache :
             /\ note_details_cache[id].isDict
             /\ note_details_cache[id].hasNote
             /\ note_details_cache[id].of = id)
    /\ [][(fLast' # fLast /\ fLast'.called /\ ~fLast'.result.hasNote) =>
             /\ fLast'.result = NoDetail
             /\ note_details_cache' = note_details_cache]_vars
    /\ [][requests' # requests =>
             IF inFlight' = inFlight
             THEN /\ externalCalls' = externalCalls
                  /\ ~fLast'.called
                  /\ fLast'.id \in DOMAIN note_details_cache
                  /\ fLast'.result = note_details_cache[fLast'.id]
             ELSE /\ externalCalls' = externalCalls + 1
                  /\ \A id \in NoteIds :
                        inFlight'[id] # inFlight[id] => id \notin DOMAIN note_details_cache]_vars

\* a first request was answered without the note key, a second for the same
\* identifier was cached, and a third was answered from the cache
C38_Witness ==
    /\ requests = 3
    /\ externalCalls = 2
    /\ ~fLast.called
    /\ fLast.id \in DOMAIN note_details_cache
    /\ fLast.result = note_details_cache[fLast.id]
    /\ DOMAIN note_details_cache = {fLast.id}

\* C39: process_attractions returns one result record per loaded pair, the
\* k-th record being that of the k-th pair, and a pair that failed or raised
\* is followed by the next pair: while the run is not interrupted, the
\* records so far are those of the pairs handled so far, and after a pair
\* that is not the last one comes the sleep and then the next pair
C39_OneRecordPerPair ==
    /\ [](/\ dPc = "done" => Len(batch_results) = attractions
          /\ dPc = "item" => Len(batch_results) = dI - 1
          /\ dPc = "sleep" => Len(batch_results) = dI
          /\ \A k \in 1..Len(batch_results) : batch_results[k].item = k)
    /\ [][(dPc = "item" /\ dI < attractions /\ dPc' # "interrupted") =>
             dPc' = "sleep"]_vars
    /\ [][(dPc = "sleep" /\ dI < attractions /\ dPc' # "interrupted") =>
             dPc' = "item" /\ dI' = dI + 1]_vars

\* three pairs: the first raised, the second failed, the third succeeded,
\* and the list returned has the three records in that order
C39_Witness ==
    /\ dPc = "done"
    /\ attractions = 3
    /\ Len(batch_results) = 3
    /\ batch_results[1] = error_result(1)
    /\ batch_results[2] = ResultEntry(2, FALSE)
    /\ batch_results[3] = ResultEntry(3, TRUE)

====
